---- MODULE Spec2Model ----
(***************************************************************************)
(* prep (src/prep.c): the collation interpreter (main's token loop and its *)
(* handlers) and the reduction pipeline (mandateTx, suppressVr,            *)
(* suppressTx, suppressId, writeTx), as one state machine.                 *)
(*                                                                         *)
(* A run is fixed by its collation file, its command line and its          *)
(* environment.  The lexer is outside the model: a collation is the        *)
(* sequence of commands its tokens spell, and every handler is one action  *)
(* that consumes one command.  The collations of the model are the         *)
(* sequence Files; the variable file says which one the run reads.         *)
(***************************************************************************)
EXTENDS Integers, Sequences, FiniteSets, TLC

(***************************************************************************)
(* Program constants.                                                      *)
(***************************************************************************)
MAXHAND == 4
MAXMACRO == 256
CTHRESHOLD == 100
WEIGHBYED == 6
INT_MAX == 2147483647
NULL == 0
NOMSS == -1
SUPPRESSED == -2
BADHAND == -3
MISSING == "?"
LITGRAN == -1
MAXYEAR == 2050

\* A value of an uninitialised int that is no index of a hand array.
Wild == -9
\* What the allocator may have left in a field initParallel does not set.
JunkVals == {0, 1, Wild}

\* Number of pieces the sets arrays of the model have room for.
MaxPiece == 2

Hands == 0 .. (MAXHAND - 1)
Pieces == 0 .. (MaxPiece - 1)

Digit(ch) == IF ch = "0" THEN 0 ELSE IF ch = "1" THEN 1 ELSE IF ch = "2" THEN 2 ELSE -1

(***************************************************************************)
(* Tokens: a witness name ("A", "A:1", "-A"), a macro ("$m"), a state      *)
(* string ("01"), the separator "|".                                       *)
(***************************************************************************)
Nm(n) == [t |-> "ms", nm |-> n, hh |-> 0, colon |-> FALSE, dash |-> FALSE, s |-> <<n>>]
Co(n, h) == [t |-> "ms", nm |-> n, hh |-> h, colon |-> TRUE, dash |-> FALSE,
             s |-> <<n, ":", "h">>]
Dash(n) == [t |-> "ms", nm |-> n, hh |-> 0, colon |-> FALSE, dash |-> TRUE,
            s |-> <<"-", n>>]
Mac(c) == [t |-> "mac", nm |-> c, hh |-> 0, colon |-> FALSE, dash |-> FALSE,
           s |-> <<"$", c>>]
St(str) == [t |-> "st", nm |-> "", hh |-> 0, colon |-> FALSE, dash |-> FALSE, s |-> str]
Bar == [t |-> "bar", nm |-> "", hh |-> 0, colon |-> FALSE, dash |-> FALSE, s |-> <<"|">>]

\* "|", "|*n", "|n" with the r reading tokens that follow: a unit of "[ ... ]".
Unit(k, n, r) == [k |-> k, n |-> n, r |-> r]
\* A line "witness minD midD maxD" of a chronology file.
ChronLine(w, hh, lo, mid, hi) == [w |-> w, hh |-> hh, lo |-> lo, mid |-> mid, hi |-> hi]

MacroNames == {"*", "?", "m", "n"}
RootName == "R"

(***************************************************************************)
(* The collations of the model, the command lines and the environments.    *)
(***************************************************************************)
Decl(names, codes) == [op |-> "*", names |-> names, codes |-> codes]
Par(code) == [op |-> "/", code |-> code]
Def(act, mac, toks) == [op |-> "=", act |-> act, mac |-> mac, toks |-> toks]
Lac(act, toks) == [op |-> "%", act |-> act, toks |-> toks]
Sup(toks) == [op |-> "-", toks |-> toks]
Rdg(units) == [op |-> "[", units |-> units]
Wit(toks) == [op |-> "<", toks |-> toks]
Chr(lines) == [op |-> "^", lines |-> lines]
Com == [op |-> "\""]
Eat == [op |-> "+"]
Unk == [op |-> "?"]
End == [op |-> "!"]
\* The same command cut short by the end of the file.
Cut(c) == [x \in (DOMAIN c) \cup {"eof"} |-> IF x = "eof" THEN TRUE ELSE c[x]]

ABC == Decl(<<"A", "B", "C">>, << >>)
ABCD == Decl(<<"A", "B", "C", "D">>, << >>)
U1 == Rdg(<< Unit("none", 0, 2) >>)
U2 == Rdg(<< Unit("none", 0, 2), Unit("none", 0, 2) >>)
UW == Rdg(<< Unit("star", 2, 2), Unit("num", 7, 2) >>)
UZ == Rdg(<< Unit("num", 0, 2), Unit("none", 0, 2) >>)
MAB == Def("SET", "m", << Nm("A"), Nm("B") >>)

Plain(cmds) == [Root |-> FALSE, cmds |-> cmds]
Rooted(cmds) == [Root |-> TRUE, cmds |-> cmds]
\* A collation run with WEIGHBYED set to d.
Scored(d, cmds) == [Root |-> FALSE, cmds |-> cmds, WEIGHBYED |-> d]

Files ==
    << \* 1: a varying and a constant unit, then a second piece
       Plain(<< ABC, U2, Wit(<< St(<<"0", "1">>), Nm("A"), Nm("B"), Bar,
                               St(<<"1", "1">>), Nm("C") >>),
                U1, Wit(<< St(<<"1">>), Nm("A"), Bar, St(<<"2">>), Nm("B"), Nm("C") >>) >>),
       \* 2: A and B take every set through one macro
       Plain(<< ABC, MAB, U1, Wit(<< St(<<"1">>), Mac("m"), Bar, St(<<"2">>), Nm("C") >>),
                U1, Wit(<< St(<<"2">>), Mac("m"), Bar, St(<<"1">>), Nm("C") >>) >>),
       \* 3: A and B take equal strings from separate state tokens
       Plain(<< ABC, U1, Wit(<< St(<<"1">>), Nm("A"), Bar, St(<<"1">>), Nm("B"), Bar,
                               St(<<"2">>), Nm("C") >>),
                U1, Wit(<< St(<<"2">>), Nm("A"), Bar, St(<<"2">>), Nm("B"), Bar,
                           St(<<"1">>), Nm("C") >>) >>),
       \* 4: a corrector of A that differs, one that does not
       Plain(<< ABC, U2, Wit(<< St(<<"0", "1">>), Nm("A"), Nm("B"), Bar,
                               St(<<"1", "1">>), Co("A", 1), Nm("C"), Bar,
                               St(<<"0", "1">>), Co("B", 1) >>),
                U1, Wit(<< St(<<"1">>), Nm("A"), Bar, St(<<"2">>), Nm("B"), Nm("C"),
                           Co("A", 2) >>) >>),
       \* 5: A is a fragment with a corrector
       Plain(<< ABC, U2, Wit(<< St(<<"?", "?">>), Nm("A"), Bar,
                               St(<<"0", "1">>), Co("A", 1), Nm("B"), Bar,
                               St(<<"1", "2">>), Nm("C") >>),
                U1, Wit(<< St(<<"?">>), Nm("A"), Bar, St(<<"1">>), Nm("B"), Bar,
                           St(<<"2">>), Nm("C"), Co("A", 1) >>) >>),
       \* 6: suppress commands, a suppressed corrector that differs
       Plain(<< ABCD, Sup(<< Nm("D"), Co("A", 1) >>), U2,
                Wit(<< St(<<"0", "1">>), Nm("A"), Nm("B"), Bar,
                       St(<<"1", "2">>), Co("A", 1), Nm("C"), Bar,
                       St(<<"1", "1">>), Co("A", 2), Dash("D") >>) >>),
       \* 7: dates; A and B take every set through one macro
       Plain(<< ABC, MAB, Chr(<< ChronLine("A", 0, 800, 850, 900),
                                 ChronLine("B", 0, 300, 350, 400),
                                 ChronLine("C", 0, 100, 150, 200),
                                 ChronLine("C", 1, 600, 650, 700) >>),
                U2, Wit(<< St(<<"0", "1">>), Mac("m"), Bar, St(<<"1", "2">>), Nm("C"), Bar,
                           St(<<"2", "1">>), Co("C", 1) >>) >>),
       \* 8: two parallels
       Plain(<< Decl(<<"A", "B", "C">>, <<"x", "y">>), U2,
                Wit(<< St(<<"0", "1">>), Nm("A"), Bar, St(<<"1", "2">>), Nm("B"), Nm("C") >>),
                Par("y"), Def("ADD", "?", << Nm("C") >>),
                Wit(<< St(<<"1", "1">>), Nm("A"), Bar, St(<<"2", "2">>), Nm("B") >>) >>),
       \* 9: a root, weights, a lacuna
       Rooted(<< ABC, UW, Wit(<< St(<<"0", "1">>), Nm("A"), Bar, St(<<"1", "0">>), Nm("B"),
                                Bar, St(<<"1", "1">>), Nm("C") >>),
                 Lac("SUB", << Nm("C") >>), Def("CHK", "*", << Nm("A") >>),
                 UZ, Wit(<< St(<<"1", "0">>), Nm("A"), Bar, St(<<"0", "2">>), Nm("B") >>),
                 Lac("ADD", << Nm("C") >>) >>),
       \* 10: singletons: four witnesses
       Plain(<< ABCD, U2, Wit(<< St(<<"0", "1">>), Nm("A"), Nm("B"), Bar,
                                St(<<"1", "1">>), Nm("C"), Bar, St(<<"1", "2">>), Nm("D") >>),
                End, Unk >>),
       \* 11: a corrector named in a macro definition
       Plain(<< ABC, Def("SET", "m", << Nm("A"), Co("A", 1) >>), U1,
                Wit(<< St(<<"1">>), Mac("m"), Bar, St(<<"2">>), Nm("B"), Nm("C") >>) >>),
       \* 12: a bad hand in a lacuna command
       Plain(<< ABC, Lac("SUB", << Co("A", 5) >>), U1,
                Wit(<< St(<<"1">>), Nm("A"), Bar, St(<<"2">>), Nm("B"), Nm("C") >>) >>),
       \* 13: warnings that count
       Plain(<< ABC, Unk, Def("ADD", "n", << Nm("X"), Mac("m") >>),
                Sup(<< Nm("X"), Mac("n") >>), Lac("CHK", << Nm("A"), Mac("n") >>), U1,
                Wit(<< St(<<"1">>), Nm("A"), Nm("X"), Nm("A"), Mac("m"), Bar,
                       St(<<"2">>), Mac("*"), Mac("*") >>),
                Def("SUB", "*", << Dash("B") >>), Lac("SUB", << Dash("B") >>),
                Lac("ADD", << Mac("*") >>) >>),
       \* 14: A and B take one set at the first piece and are in $? at the second
       Plain(<< ABC, MAB, U2, Wit(<< St(<<"0", "1">>), Mac("m"), Bar,
                                     St(<<"1", "2">>), Nm("C") >>),
                Def("ADD", "?", << Mac("m") >>), U1, Wit(<< St(<<"1">>), Nm("C") >>) >>),
       \* 15..: fatal errors
       Plain(<< ABC, U1, Wit(<< St(<<"1", "1">>), Nm("A") >>) >>),
       Plain(<< ABC, U1, Wit(<< St(<<"2">>), Nm("A"), Bar, St(<<"1">>), Nm("B") >>),
                Wit(<< St(<<"1">>), Nm("A"), Nm("B"), Nm("C") >>), ABC >>),
       Plain(<< ABC, Par("z") >>),
       Plain(<< ABC, Def("BAD", "m", << >>) >>),
       Plain(<< ABC, Lac("BAD", << >>) >>),
       Plain(<< ABC, U1, Cut(Wit(<< St(<<"1">>), Nm("A") >>)) >>),
       Plain(<< ABC, Cut(MAB) >>),
       Plain(<< ABC, Cut(Sup(<< Nm("A") >>)) >>),
       Plain(<< ABC, Cut(Lac("SUB", << Nm("A") >>)) >>),
       Plain(<< ABC, Cut(U1) >>),
       Plain(<< Cut(ABC) >>),
       \* 26..: comments, discarded lists, the end of the file inside them
       Plain(<< ABC, Com, Eat, U1,
                Wit(<< St(<<"1">>), Nm("A"), Bar, St(<<"2">>), Nm("B"), Nm("C") >>),
                Cut(Eat) >>),
       Plain(<< ABC, Cut(Eat) >>),
       Plain(<< ABC, U1, Wit(<< St(<<"1">>), Nm("A"), Bar, St(<<"2">>), Nm("B"),
                               Nm("C") >>), Cut(Com) >>),
       \* 29..: a warning before the last command, a warning at the last command
       Plain(<< ABC, Unk, U1,
                Wit(<< St(<<"1">>), Nm("A"), Bar, St(<<"2">>), Nm("B"), Nm("C") >>) >>),
       Plain(<< ABC, Unk, Unk, End >>),
       Plain(<< ABC, Unk, Unk >>),
       \* 32: two macros and an explicit name for the same witnesses, in both orders
       Plain(<< ABC, MAB, Def("SET", "n", << Nm("B"), Nm("C") >>), U1,
                Wit(<< St(<<"1">>), Mac("m"), Bar, St(<<"2">>), Mac("n"), Bar,
                       St(<<"0">>), Nm("A") >>),
                U1,
                Wit(<< St(<<"0">>), Nm("A"), Bar, St(<<"2">>), Mac("n"), Bar,
                       St(<<"1">>), Mac("m") >>) >>),
       \* 33: dates; the line of the corrector C:1 comes before the line of C
       Plain(<< ABC, Chr(<< ChronLine("C", 1, 600, 650, 700),
                            ChronLine("A", 0, 800, 850, 900),
                            ChronLine("B", 0, 300, 350, 400),
                            ChronLine("C", 0, 100, 150, 200) >>),
                U2, Wit(<< St(<<"0", "1">>), Nm("A"), Nm("B"), Bar,
                           St(<<"1", "2">>), Nm("C"), Bar,
                           St(<<"2", "1">>), Co("C", 1) >>) >>),
       \* 34: A is in $? and takes a set through the macro $m
       Plain(<< ABC, MAB, Def("ADD", "?", << Nm("A") >>), U1,
                Wit(<< St(<<"1">>), Mac("m"), Bar, St(<<"2">>), Nm("C") >>) >>),
       \* 35..37: the first unit varies only through A (a fragment), through A
       \* (a late witness), through the corrector A:1
       Plain(<< ABC, U2, Wit(<< St(<<"0", "?">>), Nm("A"), Bar, St(<<"1", "1">>), Nm("B"),
                               Bar, St(<<"1", "2">>), Nm("C") >>),
                U1, Wit(<< St(<<"?">>), Nm("A"), Bar, St(<<"1">>), Nm("B"), Bar,
                           St(<<"2">>), Nm("C") >>) >>),
       Plain(<< ABC, Chr(<< ChronLine("A", 0, 800, 850, 900),
                            ChronLine("B", 0, 300, 350, 400),
                            ChronLine("C", 0, 100, 150, 200) >>),
                U2, Wit(<< St(<<"0", "1">>), Nm("A"), Bar, St(<<"1", "1">>), Nm("B"), Bar,
                           St(<<"1", "2">>), Nm("C") >>) >>),
       Plain(<< ABC, U2, Wit(<< St(<<"1", "1">>), Nm("A"), Nm("B"), Bar,
                               St(<<"0", "1">>), Co("A", 1), Bar,
                               St(<<"1", "2">>), Nm("C") >>) >>),
       \* 38, 39: the corrector A:1 named twice, after and before A itself
       Plain(<< ABC, U1, Wit(<< St(<<"1">>), Nm("A"), Nm("B"), Co("A", 1), Bar,
                               St(<<"2">>), Nm("C"), Co("A", 1) >>) >>),
       Plain(<< ABC, U1, Wit(<< St(<<"1">>), Co("A", 1), Bar,
                               St(<<"2">>), Co("A", 1), Nm("A"), Nm("B"), Bar,
                               St(<<"1">>), Nm("C") >>) >>),
       \* 40: one unit of weight 10
       Plain(<< ABC, Rdg(<< Unit("star", 10, 2) >>),
                Wit(<< St(<<"1">>), Nm("A"), Bar, St(<<"2">>), Nm("B"), Nm("C") >>) >>),
       \* 41: a late root that a suppressed macro holds; two parallels
       Rooted(<< Decl(<<"A", "B", "C">>, <<"x", "y">>),
                 Chr(<< ChronLine(RootName, 0, 800, 850, 900),
                        ChronLine("A", 0, 300, 350, 400),
                        ChronLine("B", 0, 100, 150, 200) >>),
                 Def("SET", "m", << Nm(RootName), Nm("C") >>), Sup(<< Mac("m") >>),
                 U2, Wit(<< St(<<"0", "1">>), Nm("A"), Bar, St(<<"1", "2">>), Nm("B") >>),
                 Par("y"), Sup(<< Mac("*") >>) >>),
       \* 42: the root named in a suppress command
       Rooted(<< ABC, Sup(<< Nm(RootName) >>), U1,
                 Wit(<< St(<<"1">>), Nm("A"), Bar, St(<<"2">>), Nm("B"), Nm("C") >>) >>),
       \* 43: edit-distance scores around the multiples of a divisor of 4
       Scored(4, << ABC, Rdg(<< Unit("num", 1, 2), Unit("num", 4, 2), Unit("num", 5, 2) >>),
                    Wit(<< St(<<"0", "1", "1">>), Nm("A"), Bar,
                           St(<<"1", "0", "2">>), Nm("B"), Nm("C") >>),
                    Rdg(<< Unit("num", 8, 2), Unit("num", 0, 2), Unit("star", 3, 2) >>),
                    Wit(<< St(<<"1", "1", "1">>), Nm("A"), Nm("B"), Bar,
                           St(<<"2", "2", "2">>), Nm("C") >>) >>),
       \* 44: scores with weighting by edit distance turned off
       Scored(0, << ABC, Rdg(<< Unit("num", 7, 2), Unit("num", 0, 2) >>),
                    Wit(<< St(<<"1", "1">>), Nm("A"), Bar, St(<<"2", "2">>), Nm("B"),
                           Nm("C") >>) >>),
       \* 45: checks of a macro that pass and fail, and of a macro never defined
       Plain(<< ABC, MAB, Def("CHK", "m", << Nm("A"), Mac("m") >>),
                Def("CHK", "m", << Nm("C") >>), Def("CHK", "n", << Nm("A") >>),
                Def("CHK", "m", << Mac("n") >>) >>),
       \* 46: a macro extended, reduced and redefined, and defined again in a
       \* second parallel
       Plain(<< Decl(<<"A", "B", "C">>, <<"x", "y">>), MAB, Def("SET", "n", << Nm("C") >>),
                Def("ADD", "m", << Mac("n") >>), Def("SUB", "m", << Nm("A"), Mac("n") >>),
                Def("SET", "m", << Mac("n"), Nm("A") >>), Par("y"),
                Def("SET", "m", << Nm("B") >>), Def("SUB", "*", << Mac("m") >>) >>),
       \* 47: A in a lacuna while its macro takes a reading; lacunae opened,
       \* checked and closed in order
       Plain(<< ABC, MAB, Lac("SUB", << Nm("A"), Co("C", 1) >>), U1,
                Wit(<< St(<<"1">>), Mac("m"), Bar, St(<<"2">>), Nm("C") >>),
                Lac("CHK", << Nm("A"), Co("C", 1) >>), Lac("ADD", << Nm("A") >>), U1,
                Wit(<< St(<<"1">>), Nm("A"), Nm("B"), Bar, St(<<"2">>), Nm("C") >>) >>),
       \* 48: A named in a block while in a lacuna; lacunae opened, closed and
       \* checked out of order
       Plain(<< ABC, Lac("SUB", << Nm("A") >>), U1,
                Wit(<< St(<<"1">>), Nm("A"), Nm("B"), Bar, St(<<"2">>), Nm("C") >>),
                Lac("SUB", << Nm("A"), Nm("B") >>), Lac("ADD", << Nm("C"), Nm("B") >>),
                Lac("CHK", << Nm("A"), Nm("C") >>), Lac("ADD", << Mac("*") >>) >>),
       \* 49: two parallels; A has a corrector in the first and none in the second
       Plain(<< Decl(<<"A", "B", "C">>, <<"x", "y">>), U2,
                Wit(<< St(<<"0", "1">>), Nm("A"), Bar, St(<<"1", "2">>), Nm("B"), Nm("C"),
                       Bar, St(<<"1", "0">>), Co("A", 1) >>),
                Par("y"), U2,
                Wit(<< St(<<"1", "0">>), Nm("A"), Bar, St(<<"2", "1">>), Nm("B"), Bar,
                       St(<<"0", "2">>), Nm("C") >>) >>),
       \* 50: dates; A's bounds are given the wrong way round, B's lie between
       \* them, C is later than B
       Plain(<< ABC, Chr(<< ChronLine("A", 0, 900, 850, 800),
                            ChronLine("B", 0, 840, 850, 860),
                            ChronLine("C", 0, 870, 880, 890) >>),
                U2, Wit(<< St(<<"0", "1">>), Nm("A"), Bar, St(<<"1", "2">>), Nm("B"), Bar,
                           St(<<"2", "0">>), Nm("C") >>) >>) >>

NoEnv == [subset |-> << >>, hasYEAR |-> FALSE, YEAR |-> 0, NOSING |-> FALSE, IDOK |-> FALSE,
          hasFRAG |-> FALSE, FRAG |-> 0, hasCORR |-> FALSE, CORR |-> 0, YEARGRAN |-> 0]
Arg(subset) == [NoEnv EXCEPT !.subset = subset]
CutYear == 500
Century == 100
Envs ==
    { NoEnv,
      Arg(<< Nm("A") >>), Arg(<< Nm("A"), Nm("B") >>), Arg(<< Mac("m") >>),
      Arg(<< Nm("A"), Nm("B"), Nm("C") >>),
      Arg(<< Nm("A"), Co("A", 1), Nm("C") >>), Arg(<< Nm("X") >>),
      Arg(<< Nm("A"), Nm("X") >>), Arg(<< Mac("n"), Nm("B") >>), Arg(<< Dash("A") >>),
      [NoEnv EXCEPT !.NOSING = TRUE], [NoEnv EXCEPT !.IDOK = TRUE],
      [NoEnv EXCEPT !.hasYEAR = TRUE, !.YEAR = CutYear],
      [Arg(<< Nm("A"), Nm("B") >>) EXCEPT !.hasYEAR = TRUE, !.YEAR = CutYear],
      [NoEnv EXCEPT !.hasFRAG = TRUE], [NoEnv EXCEPT !.hasCORR = TRUE],
      [NoEnv EXCEPT !.hasCORR = TRUE, !.CORR = 2],
      [Arg(<< Nm("A"), Nm("B") >>) EXCEPT !.IDOK = TRUE],
      [Arg(<< Nm("B"), Nm("C") >>) EXCEPT !.NOSING = TRUE],
      [NoEnv EXCEPT !.YEARGRAN = Century], [NoEnv EXCEPT !.YEARGRAN = LITGRAN] }
VARIABLES
    file,        \* which collation of Files the run reads (argv[1])
    Root,        \* ctx->Root: is there a root witness (ROOT is set)
    Cmds,        \* the commands of the collation, as getToken delivers them
    weighByED,   \* ctx->weighByED: the divisor of the edit-distance scores
    pos,         \* the next command of the collation
    pc,          \* where main is: "main", "loopexit", a pass, "exit", "crash"
    status,      \* main's status: the last handler's return value
    nWarn,       \* main's nWarn
    nfWarn,      \* number of fWarn diagnostics the token loop has issued
    env,         \* argv[2..] and the environment variables the passes read
    mss,         \* ctx->mss: ms -> Witness (empty until doMSS)
    par,         \* ctx->par: pp -> [name_space, msHands, pMacros]
    parallel,    \* ctx->parallel
    macLevel,    \* ctx->macLevel
    states,      \* ctx->states: the reading-set instances, in creation order
    nRdgs,       \* ctx->nRdgs, one entry per declared unit
    wgts,        \* ctx->wgts, one entry per declared unit
    wvar,        \* ctx->wvar
    pieceUnits,  \* ctx->pieceUnits, one entry per declared piece
    mandStatus,  \* mandateTx's local status
    by,          \* history: the pass that suppressed each hand
    fpTx,        \* the matrix file
    fpNo,        \* the constraints file
    ret          \* main's return value, once pc = "exit"

vars == << file, Root, Cmds, weighByED,
           pos, pc, status, nWarn, nfWarn, env, mss, par, parallel, macLevel,
           states, nRdgs, wgts, wvar, pieceUnits, mandStatus, by, fpTx, fpNo, ret >>

\* What the run is given: fixed once main has started.
inVars == << file, Root, Cmds, weighByED >>
ctxVars == << mss, par, parallel, macLevel, states, nRdgs, wgts, wvar, pieceUnits >>
outVars == << env, mandStatus, by, fpTx, fpNo >>

Cmd == Cmds[pos]
HasCmd(op) == pc = "main" /\ pos <= Len(Cmds) /\ Cmd.op = op
IsEof(c) == "eof" \in DOMAIN c

nMSS == Cardinality(DOMAIN mss)
nParallels == Cardinality(DOMAIN par)
nPiece == Len(pieceUnits)
piece == nPiece - 1
MSS == DOMAIN mss
Pars == DOMAIN par
AllHands == { h \in Pars \X MSS \X Hands : TRUE }
Hand(h) == par[h[1]].msHands[h[2]][h[3]]

NoLines == [written |-> FALSE, lines |-> << >>]
NoFile == [written |-> FALSE, nActive |-> 0, wvar |-> 0, lines |-> << >>]
NoMacro == [def |-> FALSE, level |-> 0, inset |-> {}]

(***************************************************************************)
(* findMSS: the witness a token names; the hand is tok.hh.                 *)
(***************************************************************************)
IndexOf(name) ==
    IF \E ms \in MSS : mss[ms].name = name
    THEN CHOOSE ms \in MSS :
            /\ mss[ms].name = name
            /\ \A m2 \in MSS : mss[m2].name = name => ms <= m2
    ELSE NOMSS

findMSS(tok) ==
    IF tok.dash THEN SUPPRESSED
    ELSE IF tok.colon /\ tok.hh > MAXHAND THEN BADHAND
    ELSE IF tok.t = "ms" THEN IndexOf(tok.nm)
    ELSE NOMSS

\* typedef enum { OK, WARN, END, FATAL, } Status.
StatusNum(st) == IF st = "OK" THEN 0 ELSE IF st = "WARN" THEN 1 ELSE IF st = "END" THEN 2 ELSE 3

\* main's return statement.
ReturnValue == IF status # "OK" /\ status # "END" THEN 0 - StatusNum(status) ELSE nWarn

\* initContext's first pass over the file: it stops at '!', and fails when the
\* file ends inside "*", "@", "[", "<" or a comment; main then returns -2.
PrescanOps == {"*", "@", "[", "<", "\""}
initContext(f) ==
    LET cmds == Files[f].cmds
    IN ~ \E i \in 1 .. Len(cmds) :
            /\ IsEof(cmds[i])
            /\ cmds[i].op \in PrescanOps
            /\ \A j \in 1 .. (i - 1) : cmds[j].op # "!"

\* What a handler's return does to main's locals, and the loop's exits.
Return(st) ==
    /\ status' = st
    /\ nWarn' = IF st = "WARN" THEN nWarn + 1 ELSE nWarn
    /\ pc' = IF st \in {"END", "FATAL"} THEN "loopexit" ELSE "main"
    /\ pos' = pos + 1

(***************************************************************************)
(* initWitness, initParallel, doMSS: "* A B /x /y ;".                      *)
(***************************************************************************)
initWitness(name) ==
    [name |-> name, Aland |-> name, pname |-> name, corrected |-> FALSE]

\* initParallel sets neither lastHand nor level nor stratum.  level and
\* stratum are written before they are read; lastHand is not, and holds junk.
initHand(ms, junk) ==
    [sets |-> [pc0 \in Pieces |-> NULL], earliest |-> 0, average |-> 0,
     latest |-> INT_MAX, stratum |-> 0, suppressed |-> (Root /\ ms = 0),
     mandated |-> FALSE, inLacuna |-> FALSE, level |-> 0, lastHand |-> junk]

initParallel(n, level, name, junk) ==
    [name_space |-> name,
     msHands |-> [ms \in 0 .. (n - 1) |-> [hh \in Hands |-> initHand(ms, junk)]],
     pMacros |-> [c \in MacroNames |->
                    IF c = "*" THEN [def |-> TRUE, level |-> level, inset |-> 0 .. (n - 1)]
                    ELSE IF c = "?" THEN [def |-> TRUE, level |-> level + 1, inset |-> {}]
                    ELSE NoMacro]]

doMSS ==
    /\ HasCmd("*")
    /\ UNCHANGED << inVars, ret, parallel, states, nRdgs, wgts, wvar, pieceUnits, env,
                    mandStatus, fpTx, fpNo >>
    /\ \/ /\ mss # << >>
          /\ nfWarn' = nfWarn + 1
          /\ Return("FATAL")
          /\ UNCHANGED << mss, par, macLevel, by >>
       \/ /\ mss = << >>
          /\ \E junk \in JunkVals :
               LET names == (IF Root THEN <<RootName>> ELSE << >>) \o Cmd.names
                   n == Len(names)
                   codes == IF Cmd.codes = << >> THEN <<"">> ELSE Cmd.codes
                   p0 == [pp \in 0 .. (Len(codes) - 1) |->
                            initParallel(n, macLevel + 2 * pp, codes[pp + 1], junk)]
                   h0 == [p0[0].msHands[0][0] EXCEPT
                            !.earliest = 0, !.average = 0, !.latest = 0,
                            !.suppressed = FALSE, !.mandated = TRUE]
               IN /\ mss' = [ms \in 0 .. (n - 1) |-> initWitness(names[ms + 1])]
                  /\ par' = IF IsEof(Cmd) THEN par
                            ELSE IF Root THEN [p0 EXCEPT ![0].msHands[0][0] = h0]
                            ELSE p0
                  /\ macLevel' = IF IsEof(Cmd) THEN macLevel
                                 ELSE macLevel + 2 * Len(codes)
                  /\ by' = IF IsEof(Cmd) THEN by
                           ELSE [h \in (DOMAIN p0) \X (0 .. (n - 1)) \X Hands |->
                                   IF Root /\ h[2] = 0 /\ h # <<0, 0, 0>>
                                   THEN "init" ELSE ""]
          /\ nfWarn' = IF IsEof(Cmd) THEN nfWarn + 1 ELSE nfWarn
          /\ Return(IF IsEof(Cmd) THEN "FATAL" ELSE "OK")

\* default: an unrecognised leading token.
TokUnknown ==
    /\ HasCmd("?")
    /\ nfWarn' = nfWarn + 1
    /\ Return("WARN")
    /\ UNCHANGED << inVars, ret, ctxVars, outVars >>

\* '!': user requested end.
TokEnd ==
    /\ HasCmd("!")
    /\ nfWarn' = nfWarn
    /\ Return("END")
    /\ UNCHANGED << inVars, ret, ctxVars, outVars >>

\* '/x': doParallel.
doParallel ==
    /\ HasCmd("/")
    /\ LET pp == IF \E p \in Pars : par[p].name_space = Cmd.code
                 THEN CHOOSE p \in Pars : /\ par[p].name_space = Cmd.code
                                          /\ \A q \in Pars : par[q].name_space = Cmd.code
                                                               => p <= q
                 ELSE nParallels
       IN /\ parallel' = pp
          /\ nfWarn' = IF pp = nParallels THEN nfWarn + 1 ELSE nfWarn
          /\ Return(IF pp = nParallels THEN "FATAL" ELSE "OK")
    /\ UNCHANGED << inVars, ret, mss, par, macLevel, states, nRdgs, wgts, wvar, pieceUnits,
                    outVars >>

\* '"': doComment eats up to the closing quote.
doComment ==
    /\ HasCmd("\"")
    /\ nfWarn' = IF IsEof(Cmd) THEN nfWarn + 1 ELSE nfWarn
    /\ Return(IF IsEof(Cmd) THEN "FATAL" ELSE "OK")
    /\ UNCHANGED << inVars, ret, ctxVars, outVars >>

\* '+': doEat eats up to ';' and returns OK, or FATAL at the end of the file.
doEat(c) == IF IsEof(c) THEN "FATAL" ELSE "OK"

\* main's case '+' has no break: control falls into the '{' '}' case, which
\* sets status = OK whatever doEat returned.
caseEat ==
    /\ HasCmd("+")
    /\ nfWarn' = IF doEat(Cmd) = "FATAL" THEN nfWarn + 1 ELSE nfWarn
    /\ Return("OK")
    /\ UNCHANGED << inVars, ret, ctxVars, outVars >>

\* getToken returns 0 at the top of the loop.
MainEOF ==
    /\ pc = "main"
    /\ pos > Len(Cmds)
    /\ pc' = "loopexit"
    /\ UNCHANGED << inVars, ret, pos, status, nWarn, nfWarn, ctxVars, outVars >>

(***************************************************************************)
(* doDefine: "= $m A B ;", "=+", "=-", "=?".  The loop over the member     *)
(* tokens works on pm, the macros of the active parallel, and counts the   *)
(* handler's nWarn and the diagnostics it issues (nf).                     *)
(***************************************************************************)
\* defApply whose "=-" never takes the first witness away.
defApplyKeep(pm, name, act, S) ==
    IF act = "CHK"
    THEN [pm |-> pm, nWarn |-> Cardinality(S \ pm[name].inset),
          nf |-> Cardinality(S \ pm[name].inset)]
    ELSE IF act = "SUB"
    THEN [pm |-> [pm EXCEPT ![name].inset = @ \ (S \ {0})], nWarn |-> 0, nf |-> 0]
    ELSE [pm |-> [pm EXCEPT ![name].inset = @ \cup S], nWarn |-> 0, nf |-> 0]

\* One member set S applied to macro name under act.
defApply(pm, name, act, S) ==
    IF act = "CHK"
    THEN [pm |-> pm, nWarn |-> Cardinality(S \ pm[name].inset),
          nf |-> Cardinality(S \ pm[name].inset)]
    ELSE IF act = "SUB"
    THEN [pm |-> [pm EXCEPT ![name].inset = @ \ S], nWarn |-> 0, nf |-> 0]
    ELSE [pm |-> [pm EXCEPT ![name].inset = @ \cup S], nWarn |-> 0, nf |-> 0]

defTok(pm, name, act, tok) ==
    IF tok.t = "mac"
    THEN IF ~pm[tok.nm].def
         THEN [pm |-> pm, nWarn |-> 1, nf |-> 1]
         ELSE defApply(pm, name, act, pm[tok.nm].inset)
    ELSE LET ms == findMSS(tok)
         IN IF ms = NOMSS THEN [pm |-> pm, nWarn |-> 1, nf |-> 1]
            ELSE IF ms = SUPPRESSED THEN [pm |-> pm, nWarn |-> 0, nf |-> 0]
            ELSE IF ms = BADHAND \/ tok.hh > 0 THEN [pm |-> pm, nWarn |-> 0, nf |-> 1]
            ELSE defApply(pm, name, act, {ms})

RECURSIVE defLoop(_, _, _, _)
defLoop(pm, name, act, toks) ==
    IF toks = << >> THEN [pm |-> pm, nWarn |-> 0, nf |-> 0]
    ELSE LET one == defTok(pm, name, act, Head(toks))
             rest == defLoop(one.pm, name, act, Tail(toks))
         IN [pm |-> rest.pm, nWarn |-> one.nWarn + rest.nWarn, nf |-> one.nf + rest.nf]

doDefine ==
    /\ HasCmd("=")
    /\ mss # << >>
    /\ UNCHANGED << inVars, ret, mss, parallel, states, nRdgs, wgts, wvar, pieceUnits, outVars >>
    /\ IF Cmd.act \notin {"SET", "ADD", "SUB", "CHK"} \/ Cmd.mac \notin MacroNames
       THEN /\ nfWarn' = nfWarn + 1
            /\ Return("FATAL")
            /\ UNCHANGED << par, macLevel >>
       ELSE LET old == par[parallel].pMacros
                pm0 == IF ~old[Cmd.mac].def
                       THEN [old EXCEPT ![Cmd.mac] =
                               [def |-> TRUE, level |-> macLevel, inset |-> {}]]
                       ELSE IF Cmd.act = "SET"
                       THEN [old EXCEPT ![Cmd.mac].inset = {}]
                       ELSE old
                r == defLoop(pm0, Cmd.mac, Cmd.act, Cmd.toks)
            IN /\ par' = [par EXCEPT ![parallel].pMacros = r.pm]
               /\ macLevel' = IF old[Cmd.mac].def THEN macLevel ELSE macLevel + 1
               /\ nfWarn' = nfWarn + r.nf + (IF IsEof(Cmd) THEN 1 ELSE 0)
               /\ Return(IF IsEof(Cmd) THEN "FATAL"
                         ELSE IF r.nWarn = 0 THEN "OK" ELSE "WARN")

(***************************************************************************)
(* doSuppress: "- A B:1 $m ;".                                             *)
(***************************************************************************)
\* supTok whose macro loop starts at witness 0 whatever Root is.
supTokAll(hands, pm, tok) ==
    IF tok.t = "mac"
    THEN IF ~pm[tok.nm].def
         THEN [hands |-> hands, warn |-> TRUE]
         ELSE [hands |->
                 [ms \in DOMAIN hands |->
                    IF ms \in pm[tok.nm].inset
                    THEN [hh \in Hands |-> [hands[ms][hh] EXCEPT !.suppressed = TRUE]]
                    ELSE hands[ms]],
               warn |-> FALSE]
    ELSE LET ms == findMSS(tok)
         IN IF ms \in {SUPPRESSED, NOMSS, BADHAND}
            THEN [hands |-> hands, warn |-> TRUE]
            ELSE IF tok.colon
            THEN [hands |-> [hands EXCEPT ![ms][tok.hh].suppressed = TRUE], warn |-> FALSE]
            ELSE [hands |-> [hands EXCEPT ![ms] =
                               [hh \in Hands |-> [@[hh] EXCEPT !.suppressed = TRUE]]],
                  warn |-> FALSE]

supTok(hands, pm, tok) ==
    IF tok.t = "mac"
    THEN IF ~pm[tok.nm].def
         THEN [hands |-> hands, warn |-> TRUE]
         ELSE [hands |->
                 [ms \in DOMAIN hands |->
                    IF ms \in pm[tok.nm].inset /\ ms >= (IF Root THEN 1 ELSE 0)
                    THEN [hh \in Hands |-> [hands[ms][hh] EXCEPT !.suppressed = TRUE]]
                    ELSE hands[ms]],
               warn |-> FALSE]
    ELSE LET ms == findMSS(tok)
         IN IF ms \in {SUPPRESSED, NOMSS, BADHAND}
            THEN [hands |-> hands, warn |-> TRUE]
            ELSE IF tok.colon
            THEN [hands |-> [hands EXCEPT ![ms][tok.hh].suppressed = TRUE], warn |-> FALSE]
            ELSE [hands |-> [hands EXCEPT ![ms] =
                               [hh \in Hands |-> [@[hh] EXCEPT !.suppressed = TRUE]]],
                  warn |-> FALSE]

RECURSIVE supLoop(_, _, _)
supLoop(hands, pm, toks) ==
    IF toks = << >> THEN [hands |-> hands, nf |-> 0]
    ELSE LET one == supTok(hands, pm, Head(toks))
             rest == supLoop(one.hands, pm, Tail(toks))
         IN [hands |-> rest.hands, nf |-> rest.nf + (IF one.warn THEN 1 ELSE 0)]

\* The hands set apart by a step, for the history variable by.
Newly(p0, p1, tag) ==
    [h \in AllHands |->
        IF ~p0[h[1]].msHands[h[2]][h[3]].suppressed /\ p1[h[1]].msHands[h[2]][h[3]].suppressed
        THEN tag ELSE by[h]]

doSuppress ==
    /\ HasCmd("-")
    /\ mss # << >>
    /\ LET r == supLoop(par[parallel].msHands, par[parallel].pMacros, Cmd.toks)
           p1 == [par EXCEPT ![parallel].msHands = r.hands]
       IN /\ par' = p1
          /\ by' = Newly(par, p1, "cmd")
          /\ nfWarn' = nfWarn + r.nf + (IF IsEof(Cmd) THEN 1 ELSE 0)
          /\ Return(IF IsEof(Cmd) THEN "FATAL" ELSE IF r.nf = 0 THEN "OK" ELSE "WARN")
    /\ UNCHANGED << inVars, ret, mss, parallel, macLevel, states, nRdgs, wgts, wvar, pieceUnits,
                    env, mandStatus, fpTx, fpNo >>

(***************************************************************************)
(* doLacuna: "%- A ;" opens, "%+ A ;" closes, "%? A ;" checks.             *)
(***************************************************************************)
\* lacHand that closes a lacuna in silence on a hand that is in none.
lacHandLax(h, act) ==
    IF act = "ADD" THEN [h |-> [h EXCEPT !.inLacuna = FALSE], w |-> 0]
    ELSE IF act = "SUB" THEN [h |-> [h EXCEPT !.inLacuna = TRUE], w |-> IF h.inLacuna THEN 1 ELSE 0]
    ELSE [h |-> h, w |-> IF h.inLacuna THEN 0 ELSE 1]

\* One hand under act: the new flag and whether the command warns.
lacHand(h, act) ==
    IF act = "ADD" THEN [h |-> [h EXCEPT !.inLacuna = FALSE], w |-> IF h.inLacuna THEN 0 ELSE 1]
    ELSE IF act = "SUB" THEN [h |-> [h EXCEPT !.inLacuna = TRUE], w |-> IF h.inLacuna THEN 1 ELSE 0]
    ELSE [h |-> h, w |-> IF h.inLacuna THEN 0 ELSE 1]

RECURSIVE SumOver(_, _)
SumOver(S, f) ==
    IF S = {} THEN 0
    ELSE LET x == CHOOSE y \in S : TRUE IN f[x] + SumOver(S \ {x}, f)

lacTok(hands, pm, act, tok) ==
    IF tok.t = "mac"
    THEN IF ~pm[tok.nm].def
         THEN [hands |-> hands, nWarn |-> 1, nf |-> 1]
         ELSE LET S == { ms \in pm[tok.nm].inset : ms >= (IF Root THEN 1 ELSE 0) }
                  k == SumOver(S, [ms \in S |-> lacHand(hands[ms][0], act).w])
              IN [hands |-> [ms \in DOMAIN hands |->
                               IF ms \in S
                               THEN [hands[ms] EXCEPT ![0] = lacHand(@, act).h]
                               ELSE hands[ms]],
                  nWarn |-> k, nf |-> k]
    ELSE LET ms == findMSS(tok)
         IN IF ms = NOMSS THEN [hands |-> hands, nWarn |-> 1, nf |-> 1]
            ELSE IF ms = SUPPRESSED THEN [hands |-> hands, nWarn |-> 0, nf |-> 0]
            ELSE IF ms = BADHAND THEN [hands |-> hands, nWarn |-> 0, nf |-> 1]
            ELSE LET r == lacHand(hands[ms][tok.hh], act)
                 IN [hands |-> [hands EXCEPT ![ms][tok.hh] = r.h],
                     nWarn |-> r.w, nf |-> r.w]

RECURSIVE lacLoop(_, _, _, _)
lacLoop(hands, pm, act, toks) ==
    IF toks = << >> THEN [hands |-> hands, nWarn |-> 0, nf |-> 0]
    ELSE LET one == lacTok(hands, pm, act, Head(toks))
             rest == lacLoop(one.hands, pm, act, Tail(toks))
         IN [hands |-> rest.hands, nWarn |-> one.nWarn + rest.nWarn,
             nf |-> one.nf + rest.nf]

doLacuna ==
    /\ HasCmd("%")
    /\ mss # << >>
    /\ UNCHANGED << inVars, ret, mss, parallel, macLevel, states, nRdgs, wgts, wvar, pieceUnits,
                    outVars >>
    /\ IF Cmd.act \notin {"ADD", "SUB", "CHK"}
       THEN /\ nfWarn' = nfWarn + 1
            /\ Return("FATAL")
            /\ UNCHANGED par
       ELSE LET r == lacLoop(par[parallel].msHands, par[parallel].pMacros, Cmd.act, Cmd.toks)
            IN /\ par' = [par EXCEPT ![parallel].msHands = r.hands]
               /\ nfWarn' = nfWarn + r.nf + (IF IsEof(Cmd) THEN 1 ELSE 0)
               /\ Return(IF IsEof(Cmd) THEN "FATAL"
                         ELSE IF r.nWarn = 0 THEN "OK" ELSE "WARN")

(***************************************************************************)
(* doReadings: "[ lemma | r r |*n r ]".  A unit token carries its weight   *)
(* suffix (k, n) and the number r of reading tokens that follow it.        *)
(***************************************************************************)

\* Weight with the score divided before, not after, one is taken off.
WeightOver(tok) ==
    IF tok.k = "none" THEN 1
    ELSE IF tok.k = "star" THEN tok.n
    ELSE IF tok.n = 0 THEN 0
    ELSE IF weighByED = 0 THEN 1
    ELSE tok.n \div weighByED + 1

Weight(tok) ==
    IF tok.k = "none" THEN 1
    ELSE IF tok.k = "star" THEN tok.n
    ELSE IF tok.n = 0 THEN 0
    ELSE IF weighByED = 0 THEN 1
    ELSE (tok.n - 1) \div weighByED + 1

RECURSIVE SumSeq(_)
SumSeq(q) == IF q = << >> THEN 0 ELSE Head(q) + SumSeq(Tail(q))

doReadings ==
    /\ HasCmd("[")
    /\ nPiece < MaxPiece
    /\ LET units == Cmd.units
           w == [i \in 1 .. Len(units) |-> Weight(units[i])]
       IN /\ pieceUnits' = Append(pieceUnits, Len(units))
          /\ wgts' = wgts \o w
          /\ nRdgs' = nRdgs \o [i \in 1 .. Len(units) |-> units[i].r]
          /\ wvar' = wvar + SumSeq(w)
    /\ nfWarn' = IF IsEof(Cmd) THEN nfWarn + 1 ELSE nfWarn
    /\ Return(IF IsEof(Cmd) THEN "FATAL" ELSE "OK")
    /\ UNCHANGED << inVars, ret, mss, par, parallel, macLevel, states, outVars >>

(***************************************************************************)
(* doWitnesses: "< 01 A B $m | 11 C A:1 >".  The loop works on L: the      *)
(* hands of the active parallel, the reading-sets created so far, the      *)
(* current set rdgs (an index into states, the pointer strdup returned),   *)
(* the flag states, and the handler's nWarn.                               *)
(***************************************************************************)
\* Is some digit of the state string above the unit's number of readings?
OutOfRange(str) ==
    \E i \in 1 .. Len(str) :
        Digit(str[i]) > nRdgs[Len(nRdgs) - Len(str) + i]

witState(L, tok) ==
    IF Len(tok.s) # pieceUnits[nPiece] \/ OutOfRange(tok.s)
    THEN [L EXCEPT !.fatal = TRUE, !.nf = @ + 1]
    ELSE [L EXCEPT !.expect = FALSE, !.states = Append(@, tok.s),
                   !.rdgs = Len(L.states) + 1]

witName(L, tok) ==
    LET ms == findMSS(tok)
        hh == tok.hh
    IN IF ms \in {NOMSS, BADHAND}
       THEN [L EXCEPT !.nWarn = @ + 1, !.nf = @ + 1]
       ELSE IF ms = SUPPRESSED THEN L
       ELSE IF L.hands[ms][hh].sets[piece] # NULL /\ L.hands[ms][0].level = MAXMACRO
       THEN [L EXCEPT !.nWarn = @ + 1, !.nf = @ + 1]
       ELSE [L EXCEPT !.hands[ms][hh] =
                        [@ EXCEPT !.sets[piece] = L.rdgs, !.level = MAXMACRO]]

witMacroLast(L, pm, tok) ==
    LET macro == pm[tok.nm]
        hit == { ms \in macro.inset : ~L.hands[ms][0].inLacuna }
    IN IF ~macro.def
       THEN [L EXCEPT !.nWarn = @ + 1, !.nf = @ + 1]
       ELSE [L EXCEPT !.hands = [ms \in DOMAIN L.hands |->
                                   IF ms \in hit
                                   THEN [@[ms] EXCEPT ![0].sets[piece] = L.rdgs,
                                                      ![0].level = macro.level]
                                   ELSE @[ms]]]

witMacro(L, pm, tok) ==
    LET macro == pm[tok.nm]
        hit == { ms \in macro.inset : ~L.hands[ms][0].inLacuna }
        dup == { ms \in hit : L.hands[ms][0].level = macro.level }
        new == { ms \in hit : L.hands[ms][0].level < macro.level }
    IN IF ~macro.def
       THEN [L EXCEPT !.nWarn = @ + 1, !.nf = @ + 1]
       ELSE [L EXCEPT !.hands = [ms \in DOMAIN L.hands |->
                                   IF ms \in new
                                   THEN [@[ms] EXCEPT ![0].sets[piece] = L.rdgs,
                                                      ![0].level = macro.level]
                                   ELSE @[ms]],
                      !.nWarn = @ + Cardinality(dup),
                      !.nf = @ + Cardinality(dup)]

witTok(L, pm, tok) ==
    IF tok.t = "mac" THEN witMacro(L, pm, tok)
    ELSE IF tok.t = "bar" THEN [L EXCEPT !.expect = TRUE]
    ELSE IF L.expect THEN witState(L, tok)
    ELSE witName(L, tok)

RECURSIVE witLoop(_, _, _)
witLoop(L, pm, toks) ==
    IF toks = << >> \/ L.fatal THEN L
    ELSE witLoop(witTok(L, pm, Head(toks)), pm, Tail(toks))

\* witClose that lets a set on a hand in a lacuna pass.
witCloseQuiet(L, pm) ==
    LET hands == L.hands
        miss == pm["?"]
        todo == { ms \in DOMAIN hands : /\ ms >= (IF Root /\ parallel = 0 THEN 1 ELSE 0)
                                        /\ ~hands[ms][0].suppressed }
        lac == { ms \in todo : hands[ms][0].inLacuna }
        badlac == { ms \in lac : hands[ms][0].sets[piece] # NULL }
        clr == { ms \in todo \ lac : /\ ms \in miss.inset
                                     /\ hands[ms][0].level <= miss.level }
        una == { ms \in (todo \ lac) \ clr : /\ hands[ms][0].sets[piece] = NULL
                                             /\ ms \notin miss.inset }
        k == Cardinality(una)
    IN [L EXCEPT !.hands = [ms \in DOMAIN hands |->
                              IF ms \in clr THEN [@[ms] EXCEPT ![0].sets[piece] = NULL]
                              ELSE @[ms]],
                 !.nWarn = @ + k, !.nf = @ + k]

\* case '>': the checks at the end of the block.
witClose(L, pm) ==
    LET hands == L.hands
        miss == pm["?"]
        todo == { ms \in DOMAIN hands : /\ ms >= (IF Root /\ parallel = 0 THEN 1 ELSE 0)
                                        /\ ~hands[ms][0].suppressed }
        lac == { ms \in todo : hands[ms][0].inLacuna }
        badlac == { ms \in lac : hands[ms][0].sets[piece] # NULL }
        clr == { ms \in todo \ lac : /\ ms \in miss.inset
                                     /\ hands[ms][0].level <= miss.level }
        una == { ms \in (todo \ lac) \ clr : /\ hands[ms][0].sets[piece] = NULL
                                             /\ ms \notin miss.inset }
        k == Cardinality(badlac) + Cardinality(una)
    IN [L EXCEPT !.hands = [ms \in DOMAIN hands |->
                              IF ms \in clr THEN [@[ms] EXCEPT ![0].sets[piece] = NULL]
                              ELSE @[ms]],
                 !.nWarn = @ + k, !.nf = @ + k]

doWitnesses ==
    /\ HasCmd("<")
    /\ mss # << >>
    /\ nPiece > 0
    /\ LET pm == par[parallel].pMacros
           L0 == [hands |-> [ms \in MSS |->
                               [par[parallel].msHands[ms] EXCEPT ![0].level = 0]],
                  states |-> states, rdgs |-> NULL, expect |-> TRUE,
                  nWarn |-> 0, nf |-> 0, fatal |-> FALSE]
           L1 == witLoop(L0, pm, Cmd.toks)
           L2 == IF L1.fatal \/ IsEof(Cmd) THEN L1 ELSE witClose(L1, pm)
       IN /\ par' = [par EXCEPT ![parallel].msHands = L2.hands]
          /\ states' = L2.states
          /\ nfWarn' = nfWarn + L2.nf + (IF ~L1.fatal /\ IsEof(Cmd) THEN 1 ELSE 0)
          /\ Return(IF L1.fatal \/ IsEof(Cmd) THEN "FATAL"
                    ELSE IF L2.nWarn = 0 THEN "OK" ELSE "WARN")
    /\ UNCHANGED << inVars, ret, mss, parallel, macLevel, nRdgs, wgts, wvar, pieceUnits, outVars >>

(***************************************************************************)
(* doChron: "^ file"; the file's lines are "witness minD midD maxD".       *)
(***************************************************************************)
\* One line: every witness whose Aland name matches, in every parallel.
chronLine(p, ln) ==
    [pp \in DOMAIN p |->
        [p[pp] EXCEPT !.msHands =
            [ms \in MSS |->
                IF mss[ms].Aland # ln.w THEN @[ms]
                ELSE [hh \in Hands |->
                        IF hh = ln.hh
                        THEN [@[ms][hh] EXCEPT !.earliest = ln.lo, !.average = ln.mid,
                                               !.latest = ln.hi]
                        ELSE IF ln.hh = 0
                        THEN [@[ms][hh] EXCEPT !.earliest = ln.lo, !.average = ln.mid,
                                               !.latest = INT_MAX]
                        ELSE @[ms][hh]]]]]

RECURSIVE chronLoop(_, _)
chronLoop(p, lines) ==
    IF lines = << >> THEN p ELSE chronLoop(chronLine(p, Head(lines)), Tail(lines))

doChron ==
    /\ HasCmd("^")
    /\ mss # << >>
    /\ par' = chronLoop(par, Cmd.lines)
    /\ nfWarn' = nfWarn
    /\ Return("OK")
    /\ UNCHANGED << inVars, ret, mss, parallel, macLevel, states, nRdgs, wgts, wvar, pieceUnits,
                    outVars >>

(***************************************************************************)
(* main after the token loop.  The command line (argv[2..], ctx->subset)   *)
(* and the environment are fixed when the process starts; the token loop   *)
(* reads neither, so the model draws them when the loop is left.           *)
(***************************************************************************)
AfterLoop ==
    /\ pc = "loopexit"
    /\ env' \in Envs
    /\ pc' = IF status = "FATAL" \/ nWarn # 0 THEN "exit" ELSE "mandateTx"
    /\ ret' = IF status = "FATAL" \/ nWarn # 0 THEN ReturnValue ELSE ret
    /\ UNCHANGED << inVars, pos, status, nWarn, nfWarn, ctxVars, mandStatus, by, fpTx, fpNo >>

(***************************************************************************)
(* mandateTx                                                               *)
(***************************************************************************)
mandTok(m, pm, tok) ==
    IF tok.t = "mac"
    THEN IF ~pm[tok.nm].def
         THEN [m EXCEPT !.status = "WARN"]
         ELSE [m EXCEPT !.hands =
                 [ms \in DOMAIN m.hands |->
                    IF ms \in pm[tok.nm].inset /\ ms >= (IF Root THEN 1 ELSE 0)
                    THEN [@[ms] EXCEPT ![0].mandated = TRUE]
                    ELSE @[ms]]]
    ELSE LET ms == findMSS(tok)
         IN IF ms \in {SUPPRESSED, NOMSS, BADHAND}
            THEN [m EXCEPT !.status = "WARN"]
            ELSE [m EXCEPT !.hands[ms][tok.hh].mandated = TRUE]

RECURSIVE mandLoop(_, _, _)
mandLoop(m, pm, toks) ==
    IF toks = << >> THEN m ELSE mandLoop(mandTok(m, pm, Head(toks)), pm, Tail(toks))

\* mandSuppress without the test of the mandated flag.
mandSuppressAll(p) ==
    [pp \in DOMAIN p |->
        [p[pp] EXCEPT !.msHands =
            [ms \in MSS |-> [hh \in Hands |-> [@[ms][hh] EXCEPT !.suppressed = TRUE]]]]]

\* "Suppress everything not mandated."
mandSuppress(p) ==
    [pp \in DOMAIN p |->
        [p[pp] EXCEPT !.msHands =
            [ms \in MSS |-> [hh \in Hands |->
                IF ~@[ms][hh].suppressed /\ ~@[ms][hh].mandated
                THEN [@[ms][hh] EXCEPT !.suppressed = TRUE]
                ELSE @[ms][hh]]]]]

mandateTxOf(p, subset) ==
    IF subset = << >> THEN [par |-> p, status |-> "OK"]
    ELSE LET m == mandLoop([hands |-> p[parallel].msHands, status |-> "OK"],
                           p[parallel].pMacros, subset)
             p1 == [p EXCEPT ![parallel].msHands = m.hands]
         IN IF m.status # "OK" THEN [par |-> p1, status |-> m.status]
            ELSE [par |-> mandSuppress(p1), status |-> "OK"]

mandateTx ==
    /\ pc = "mandateTx"
    /\ LET r == mandateTxOf(par, env.subset)
       IN /\ par' = r.par
          /\ mandStatus' = r.status
          /\ by' = Newly(par, r.par, "mand")
    /\ pc' = "suppressVr1"
    /\ UNCHANGED << inVars, ret, pos, status, nWarn, nfWarn, env, mss, parallel, macLevel, states,
                    nRdgs, wgts, wvar, pieceUnits, fpTx, fpNo >>

(***************************************************************************)
(* suppressVr                                                              *)
(***************************************************************************)
\* The hands in the order of the loops "for pp, for ms, for hh".
HandOrder ==
    [i \in 1 .. (nParallels * nMSS * MAXHAND) |->
        << (i - 1) \div (nMSS * MAXHAND), ((i - 1) \div MAXHAND) % nMSS, (i - 1) % MAXHAND >>]

\* Index in wgts of unit pv of piece pc0 (both 0-based); wgts is 1-based here.
VarOf(pc0, pv) == SumSeq(SubSeq(pieceUnits, 1, pc0)) + pv + 1

\* r: the set the hand shows at the piece, through lastHand when its own is unset.
ShownSet(p, h, pc0) ==
    LET hands == p[h[1]].msHands[h[2]]
        r == hands[h[3]].sets[pc0]
    IN IF r = NULL /\ h[3] > 0 THEN hands[hands[h[3]].lastHand].sets[pc0] ELSE r

defchar(h) == IF Root /\ h[1] = 0 /\ h[2] = 0 THEN "0" ELSE MISSING

StateOf(p, h, pc0, pv) ==
    LET r == ShownSet(p, h, pc0)
    IN IF r # NULL THEN states[r][pv + 1] ELSE defchar(h)

\* The read hands[hands[hh].lastHand] with a lastHand that is no index.
WildRead(p) ==
    \E h \in AllHands : \E pc0 \in 0 .. (nPiece - 1) :
        /\ pieceUnits[pc0 + 1] > 0
        /\ ~p[h[1]].msHands[h[2]][h[3]].suppressed
        /\ h[3] > 0
        /\ p[h[1]].msHands[h[2]][h[3]].sets[pc0] = NULL
        /\ p[h[1]].msHands[h[2]][h[3]].lastHand \notin Hands

\* The tables states[], count[], and dblCount, after the hands i.. of the order.
RECURSIVE tally(_, _, _, _, _)
tally(p, pc0, pv, i, t) ==
    IF i > Len(HandOrder) THEN t
    ELSE LET h == HandOrder[i]
             state == StateOf(p, h, pc0, pv)
             ss == IF \E k \in 1 .. Len(t.states) : t.states[k] = state
                   THEN CHOOSE k \in 1 .. Len(t.states) : t.states[k] = state
                   ELSE 0
         IN IF p[h[1]].msHands[h[2]][h[3]].suppressed \/ state = MISSING
            THEN tally(p, pc0, pv, i + 1, t)
            ELSE IF ss # 0
            THEN tally(p, pc0, pv, i + 1,
                       [t EXCEPT !.count[ss] = @ + 1,
                                 !.dblCount = IF t.count[ss] + 1 = 2 THEN @ + 1 ELSE @])
            ELSE tally(p, pc0, pv, i + 1,
                       [t EXCEPT !.states = Append(@, state), !.count = Append(@, 1)])

\* Constant with "nStates <= 1" weakened to "nStates < 1".
ConstantWeak(p, pc0, pv, nosing) ==
    LET t == tally(p, pc0, pv, 1, [states |-> << >>, count |-> << >>, dblCount |-> 0])
    IN Len(t.states) < 1 \/ (nosing /\ t.dblCount <= 1)

Constant(p, pc0, pv, nosing) ==
    LET t == tally(p, pc0, pv, 1, [states |-> << >>, count |-> << >>, dblCount |-> 0])
    IN Len(t.states) <= 1 \/ (nosing /\ t.dblCount <= 1)

\* Is unit var (1-based) of wgts eliminated by this run?
UnitPos(var) ==
    CHOOSE q \in { <<pc0, pv>> \in (0 .. (nPiece - 1)) \X (0 .. (Len(wgts) - 1)) :
                     pv < pieceUnits[pc0 + 1] } : VarOf(q[1], q[2]) = var

suppressVrNone(p, w, nosing) == w

suppressVrOf(p, w, nosing) ==
    [var \in 1 .. Len(w) |->
        IF Constant(p, UnitPos(var)[1], UnitPos(var)[2], nosing) THEN 0 ELSE w[var]]

suppressVr ==
    /\ pc \in {"suppressVr1", "suppressVr2"}
    /\ IF WildRead(par)
       THEN /\ pc' = "crash"
            /\ UNCHANGED << wgts, wvar >>
       ELSE /\ wgts' = suppressVrOf(par, wgts, env.NOSING)
            /\ wvar' = wvar - (SumSeq(wgts) - SumSeq(wgts'))
            /\ pc' = IF pc = "suppressVr1" THEN "suppressTx" ELSE "suppressId"
    /\ UNCHANGED << inVars, ret, pos, status, nWarn, nfWarn, env, mss, par, parallel, macLevel,
                    states, nRdgs, pieceUnits, mandStatus, by, fpTx, fpNo >>

(***************************************************************************)
(* suppressTx: fragments, correctors, then the year cutoff.                *)
(***************************************************************************)
nVar == Len(wgts)

\* fThresh as half of wvar rounded up.
fThreshCeil == IF env.hasFRAG THEN env.FRAG ELSE (wvar + 1) \div 2

fThresh == IF env.hasFRAG THEN env.FRAG ELSE wvar \div 2 + 1
cThresh == IF env.hasCORR THEN env.CORR
           ELSE IF nVar > 2 * CTHRESHOLD THEN CTHRESHOLD
           ELSE wvar \div 10 + 1

\* The units of the model, as (piece, unit of the piece), both 0-based.
Units == { q \in (0 .. (nPiece - 1)) \X (0 .. (nVar - 1)) : q[2] < pieceUnits[q[1] + 1] }

\* "Count active variation units" of hand 0.
nExtant(hands) ==
    LET f == [q \in Units |->
                IF hands[0].sets[q[1]] # NULL
                   /\ states[hands[0].sets[q[1]]][q[2] + 1] # MISSING
                THEN wgts[VarOf(q[1], q[2])] ELSE 0]
    IN SumOver(Units, f)

\* nCorrs of hand hh against lastHand.
nCorrs(hands, hh, lastHand) ==
    LET f == [q \in Units |->
                LET r == hands[hh].sets[q[1]]
                    lh == hands[lastHand].sets[q[1]]
                    lhRdg == IF lh # NULL THEN states[lh][q[2] + 1] ELSE MISSING
                IN IF r # NULL /\ states[r][q[2] + 1] # lhRdg
                   THEN wgts[VarOf(q[1], q[2])] ELSE 0]
    IN SumOver(Units, f)

\* corrHand that takes every cell from lastHand, set or not.
corrHandOver(c, hh) ==
    LET n == nCorrs(c.hands, hh, c.lastHand)
        filled == [pc0 \in Pieces |->
                     IF pc0 < nPiece
                     THEN c.hands[c.lastHand].sets[pc0]
                     ELSE c.hands[hh].sets[pc0]]
        h1 == [c.hands[hh] EXCEPT !.sets = filled]
    IN IF n < cThresh /\ ~h1.mandated
       THEN [hands |-> [c.hands EXCEPT ![hh] = [h1 EXCEPT !.suppressed = TRUE]],
             lastHand |-> c.lastHand]
       ELSE [hands |-> [c.hands EXCEPT ![hh] = [h1 EXCEPT !.lastHand = c.lastHand]],
             lastHand |-> hh]

\* One turn of "for (hh = 1; hh < MAXHAND; hh++)" on c = [hands, lastHand].
corrHand(c, hh) ==
    LET n == nCorrs(c.hands, hh, c.lastHand)
        filled == [pc0 \in Pieces |->
                     IF pc0 < nPiece /\ c.hands[hh].sets[pc0] = NULL
                     THEN c.hands[c.lastHand].sets[pc0]
                     ELSE c.hands[hh].sets[pc0]]
        h1 == [c.hands[hh] EXCEPT !.sets = filled]
    IN IF n < cThresh /\ ~h1.mandated
       THEN [hands |-> [c.hands EXCEPT ![hh] = [h1 EXCEPT !.suppressed = TRUE]],
             lastHand |-> c.lastHand]
       ELSE [hands |-> [c.hands EXCEPT ![hh] = [h1 EXCEPT !.lastHand = c.lastHand]],
             lastHand |-> hh]

RECURSIVE corrLoop(_, _)
corrLoop(c, hh) == IF hh >= MAXHAND THEN c ELSE corrLoop(corrHand(c, hh), hh + 1)

isSuppressed(hands) == \A hh \in Hands : hands[hh].suppressed

\* fragCorr with "nExtant <= fThresh".
fragCorrLe(hands, ms) ==
    IF isSuppressed(hands) THEN hands
    ELSE LET h0 == IF (~Root \/ ms > 0) /\ nExtant(hands) <= fThresh /\ ~hands[0].mandated
                   THEN [hands EXCEPT ![0].suppressed = TRUE]
                   ELSE hands
         IN corrLoop([hands |-> h0, lastHand |-> 0], 1).hands

\* The body of the first loop for one witness of one parallel.
fragCorr(hands, ms) ==
    IF isSuppressed(hands) THEN hands
    ELSE LET h0 == IF (~Root \/ ms > 0) /\ nExtant(hands) < fThresh /\ ~hands[0].mandated
                   THEN [hands EXCEPT ![0].suppressed = TRUE]
                   ELSE hands
         IN corrLoop([hands |-> h0, lastHand |-> 0], 1).hands

nHands(hands) == Cardinality({ hh \in Hands : ~hands[hh].suppressed })

\* w->corrected after the first loop: the last parallel that did not skip ms.
corrected(p0, p1, ms) ==
    LET done == { pp \in DOMAIN p0 : ~isSuppressed(p0[pp].msHands[ms]) }
        last == CHOOSE pp \in done : \A q \in done : q <= pp
    IN IF done = {} THEN mss[ms].corrected ELSE nHands(p1[last].msHands[ms]) > 1

\* suppressTx without its second loop.
yearCutNone(p, year) == p

\* "Suppress by year"
yearCut(p, year) ==
    [pp \in DOMAIN p |->
        [p[pp] EXCEPT !.msHands =
            [ms \in MSS |-> [hh \in Hands |->
                IF ~@[ms][hh].suppressed /\ @[ms][hh].earliest > year /\ ~@[ms][hh].mandated
                THEN [@[ms][hh] EXCEPT !.suppressed = TRUE]
                ELSE @[ms][hh]]]]]

fragCorrAll(p) ==
    [pp \in DOMAIN p |->
        [p[pp] EXCEPT !.msHands = [ms \in MSS |-> fragCorr(p[pp].msHands[ms], ms)]]]

\* The tag of the history variable for a hand the first loop set apart.
TagFC(p0, p1) ==
    [h \in AllHands |->
        IF ~p0[h[1]].msHands[h[2]][h[3]].suppressed /\ p1[h[1]].msHands[h[2]][h[3]].suppressed
        THEN (IF h[3] = 0 THEN "frag" ELSE "corr") ELSE by[h]]

suppressTx ==
    /\ pc = "suppressTx"
    /\ LET p1 == fragCorrAll(par)
           p2 == IF env.hasYEAR THEN yearCut(p1, env.YEAR) ELSE p1
           b1 == TagFC(par, p1)
       IN /\ par' = p2
          /\ mss' = [ms \in MSS |-> [mss[ms] EXCEPT !.corrected = corrected(par, p1, ms)]]
          /\ by' = [h \in AllHands |->
                      IF ~p1[h[1]].msHands[h[2]][h[3]].suppressed
                         /\ p2[h[1]].msHands[h[2]][h[3]].suppressed
                      THEN "year" ELSE b1[h]]
    /\ pc' = "suppressVr2"
    /\ UNCHANGED << inVars, ret, pos, status, nWarn, nfWarn, env, parallel, macLevel, states,
                    nRdgs, wgts, wvar, pieceUnits, mandStatus, fpTx, fpNo >>

(***************************************************************************)
(* suppressId                                                              *)
(***************************************************************************)
\* sameSets by strcmp instead of pointer comparison.
sameText(h1, h2) ==
    \A pc0 \in 0 .. (nPiece - 1) :
        \/ h1.sets[pc0] = h2.sets[pc0]
        \/ /\ h1.sets[pc0] # NULL
           /\ h2.sets[pc0] # NULL
           /\ states[h1.sets[pc0]] = states[h2.sets[pc0]]

sameSets(h1, h2) == \A pc0 \in 0 .. (nPiece - 1) : h1.sets[pc0] = h2.sets[pc0]

\* The loop over ms within one parallel, from witness ms on.
RECURSIVE idLoop(_, _)
idLoop(hands, ms) ==
    IF ms >= nMSS THEN hands
    ELSE IF ~hands[ms][0].suppressed
            /\ \E m2 \in 0 .. (ms - 1) : /\ ~hands[m2][0].suppressed
                                         /\ sameSets(hands[ms][0], hands[m2][0])
    THEN idLoop([hands EXCEPT ![ms][0].suppressed = TRUE], ms + 1)
    ELSE idLoop(hands, ms + 1)

suppressIdOf(p) == [pp \in DOMAIN p |-> [p[pp] EXCEPT !.msHands = idLoop(@, 0)]]

suppressId ==
    /\ pc = "suppressId"
    /\ par' = IF env.IDOK THEN par ELSE suppressIdOf(par)
    /\ by' = Newly(par, par', "id")
    /\ pc' = "writeTx"
    /\ UNCHANGED << inVars, ret, pos, status, nWarn, nfWarn, env, mss, parallel, macLevel, states,
                    nRdgs, wgts, wvar, pieceUnits, mandStatus, fpTx, fpNo >>

(***************************************************************************)
(* writeTx: the header and one line per unsuppressed hand.                 *)
(***************************************************************************)
activeMSS == Cardinality({ h \in AllHands : ~Hand(h).suppressed })

\* sprintf's "%d" of a hand number.
HandDigits == << "0", "1", "2", "3" >>

\* parName: the name, ":hand" when the witness has correctors, "/code" when
\* the parallel has a code.
parName(pp, isCorrected, hh, name) ==
    << name >> \o (IF isCorrected THEN << ":", HandDigits[hh + 1] >> ELSE << >>)
               \o (IF par[pp].name_space # "" THEN << "/", par[pp].name_space >> ELSE << >>)

\* The name writeTx and writeNo print for hand h.
printName(h) == parName(h[1], mss[h[2]].corrected, h[3], mss[h[2]].pname)

\* Repeat that writes a unit of non-zero weight once.
RepeatOnce(ch, n) == [i \in 1 .. (IF n > 0 THEN 1 ELSE 0) |-> ch]

Repeat(ch, n) == [i \in 1 .. n |-> ch]

\* The characters of the line of hand h from unit var (1-based) on.
RECURSIVE lineFrom(_, _)
lineFrom(h, var) ==
    IF var > nVar THEN << >>
    ELSE Repeat(StateOf(par, h, UnitPos(var)[1], UnitPos(var)[2]), wgts[var])
         \o lineFrom(h, var + 1)

RECURSIVE linesFrom(_)
linesFrom(i) ==
    IF i > Len(HandOrder) THEN << >>
    ELSE IF Hand(HandOrder[i]).suppressed THEN linesFrom(i + 1)
    ELSE << [hand |-> HandOrder[i], name |-> printName(HandOrder[i]),
             chars |-> lineFrom(HandOrder[i], 1)] >>
         \o linesFrom(i + 1)

writeTx ==
    /\ pc = "writeTx"
    /\ IF WildRead(par)
       THEN /\ pc' = "crash"
            /\ UNCHANGED fpTx
       ELSE /\ fpTx' = [written |-> TRUE, nActive |-> activeMSS, wvar |-> wvar,
                        lines |-> linesFrom(1)]
            /\ pc' = "writeNo"
    /\ UNCHANGED << inVars, ret, pos, status, nWarn, nfWarn, env, ctxVars, mandStatus, by, fpNo >>

(***************************************************************************)
(* stratify, writeNo                                                       *)
(***************************************************************************)
YearGran == env.YEARGRAN

strattab == << 100, 350, 450, 600, 775, 950, 1100, 1200, 1300, 1400, 1500, 1600, 9999 >>

litStratum(year) ==
    IF YearGran = 0 THEN year
    ELSE IF YearGran # LITGRAN THEN (year + YearGran \div 2) \div YearGran
    ELSE Cardinality({ st \in 1 .. Len(strattab) : strattab[st] < year })

\* The years stratify marks in strata[]: those of the unsuppressed hands.
marked(p) ==
    { litStratum(p[h[1]].msHands[h[2]][h[3]].average) :
        h \in { g \in AllHands : ~p[g[1]].msHands[g[2]][g[3]].suppressed } }

compactAlways(used, s) == Cardinality({ z \in used : z < s })

\* The second half of stratify: nothing when YearGran is 0, else the rank
\* of the marked year among the marked years.
compact(used, s) ==
    IF YearGran = 0 THEN s ELSE Cardinality({ z \in used : z < s })

stratify(p) ==
    [pp \in DOMAIN p |->
        [p[pp] EXCEPT !.msHands =
            [ms \in MSS |->
                [hh \in Hands |->
                    LET hand == p[pp].msHands[ms][hh]
                    IN IF hand.suppressed THEN hand
                       ELSE [hand EXCEPT !.stratum =
                               compact(marked(p), litStratum(hand.average))]]]]]

\* writeNo stratifies, then writes the constraints file; a year outside
\* strata[0 .. MAXYEAR-1] is a write outside the array.
\* listed with "earliest >= latest".
listedLoose(p, h, h2) ==
    LET a == p[h[1]].msHands[h[2]][h[3]]
        b == p[h2[1]].msHands[h2[2]][h2[3]]
    IN \/ a.earliest >= b.latest
       \/ h[1] = h2[1] /\ h[2] = h2[2] /\ h[3] >= h2[3]

\* listed with the two bounds exchanged.
listedSwapped(p, h, h2) ==
    LET a == p[h[1]].msHands[h[2]][h[3]]
        b == p[h2[1]].msHands[h2[2]][h2[3]]
    IN \/ a.latest > b.earliest
       \/ h[1] = h2[1] /\ h[2] = h2[2] /\ h[3] >= h2[3]

\* h2 is written on the line of h.
listed(p, h, h2) ==
    LET a == p[h[1]].msHands[h[2]][h[3]]
        b == p[h2[1]].msHands[h2[2]][h2[3]]
    IN \/ a.earliest > b.latest
       \/ h[1] = h2[1] /\ h[2] = h2[2] /\ h[3] >= h2[3]

RECURSIVE predsFrom(_, _, _)
predsFrom(p, h, i) ==
    IF i > Len(HandOrder) THEN << >>
    ELSE IF ~p[HandOrder[i][1]].msHands[HandOrder[i][2]][HandOrder[i][3]].suppressed
            /\ listed(p, h, HandOrder[i])
    THEN << HandOrder[i] >> \o predsFrom(p, h, i + 1)
    ELSE predsFrom(p, h, i + 1)

\* constraintsFrom that gives every hand a line, the suppressed ones too.
constraintsAll(p, i) ==
    [k \in 1 .. (Len(HandOrder) - i + 1) |->
        LET h == HandOrder[k + i - 1]
        IN [hand |-> h, name |-> printName(h),
            stratum |-> p[h[1]].msHands[h[2]][h[3]].stratum,
            preds |-> predsFrom(p, h, 1)]]

RECURSIVE constraintsFrom(_, _)
constraintsFrom(p, i) ==
    IF i > Len(HandOrder) THEN << >>
    ELSE LET h == HandOrder[i]
             hand == p[h[1]].msHands[h[2]][h[3]]
         IN IF hand.suppressed THEN constraintsFrom(p, i + 1)
            ELSE << [hand |-> h, name |-> printName(h), stratum |-> hand.stratum,
                     preds |-> predsFrom(p, h, 1)] >>
                 \o constraintsFrom(p, i + 1)

writeNo ==
    /\ pc = "writeNo"
    /\ IF \E s \in marked(par) : s < 0 \/ s >= MAXYEAR
       THEN pc' = "crash" /\ UNCHANGED << par, fpNo >>
       ELSE /\ pc' = "writeVr"
            /\ par' = stratify(par)
            /\ fpNo' = [written |-> TRUE, lines |-> constraintsFrom(par', 1)]
    /\ UNCHANGED << inVars, ret, pos, status, nWarn, nfWarn, env, mss, parallel, macLevel,
                    states, nRdgs, wgts, wvar, pieceUnits, mandStatus, by, fpTx >>

\* writeVr reads the collation again for the variant listing, counting the
\* weighted-unit total anew from 0 over the units; then main returns.
writeVr ==
    /\ pc = "writeVr"
    /\ pc' = "exit"
    /\ wvar' = SumSeq(wgts)
    /\ ret' = ReturnValue
    /\ UNCHANGED << inVars, pos, status, nWarn, nfWarn, env, mss, par, parallel, macLevel,
                    states, nRdgs, wgts, pieceUnits, mandStatus, by, fpTx, fpNo >>

(***************************************************************************)
(* Properties.                                                             *)
(***************************************************************************)
StateChars == {"0", "1", "2", MISSING}
PipelinePcs == {"mandateTx", "suppressVr1", "suppressTx", "suppressVr2", "suppressId",
                "writeTx", "writeNo", "writeVr", "crash"}
Suppressed(h) == Hand(h).suppressed
SuppressedNext(h) == par'[h[1]].msHands[h[2]][h[3]].suppressed
MandatedNext(h) == par'[h[1]].msHands[h[2]][h[3]].mandated

\* The unsuppressed hands that show state ch at unit q.
Attesting(q, ch) == { h \in AllHands : ~Suppressed(h) /\ StateOf(par, h, q[1], q[2]) = ch }
Attested(q) == { ch \in StateChars \ {MISSING} : Attesting(q, ch) # {} }
AttestedTwice(q) == { ch \in Attested(q) : Cardinality(Attesting(q, ch)) >= 2 }

\* C1: immediately after each run of suppressVr, every unit of non-zero
\* weight has at least 2 distinct non-missing states among the unsuppressed
\* hands, and under NOSING at least 2 states attested by at least 2 hands each.
C1_SurvivingUnitsVary ==
    pc \in {"suppressTx", "suppressId"} =>
        \A q \in Units :
            wgts[VarOf(q[1], q[2])] # 0 =>
                /\ Cardinality(Attested(q)) >= 2
                /\ env.NOSING => Cardinality(AttestedTwice(q)) >= 2

C1_Witness ==
    /\ pc = "suppressId"
    /\ env.NOSING
    /\ \E q \in Units : wgts[VarOf(q[1], q[2])] # 0
    /\ \E q \in Units : wgts[VarOf(q[1], q[2])] = 0 /\ Cardinality(Attested(q)) >= 2

C2_MandatedSurvivesStep ==
    pc \in {"suppressTx", "suppressId"} =>
        \A h \in AllHands :
            Hand(h).mandated /\ ~Suppressed(h) => ~SuppressedNext(h)

\* C2: a hand that is mandated and unsuppressed when the mandate pass has
\* ended is not suppressed by suppressTx (fragment, correction, year cutoff)
\* nor by suppressId.
C2_MandatedSurvives == [][C2_MandatedSurvivesStep]_vars

\* C3: after the passes, every unsuppressed hand h > 0 has a lastHand that is
\* less than h and names an unsuppressed hand of the same witness and parallel.
C3_LinkedToSurvivor ==
    pc = "writeTx" =>
        \A h \in AllHands :
            h[3] > 0 /\ ~Suppressed(h) =>
                /\ Hand(h).lastHand \in 0 .. (h[3] - 1)
                /\ ~Suppressed(<<h[1], h[2], Hand(h).lastHand>>)

\* C4: when the matrix is written, a witness whose hand 0 is suppressed in a
\* parallel has no line there at any hand.
C4_NoLineWithoutHand0 ==
    fpTx.written =>
        \A i \in DOMAIN fpTx.lines :
            ~Suppressed(<<fpTx.lines[i].hand[1], fpTx.lines[i].hand[2], 0>>)

\* The number of characters a line holds before those of unit var.
Before(var) == SumSeq(SubSeq(wgts, 1, var - 1))

\* C5: the running total is the sum of the weights of all units, the header
\* of the matrix carries it, and every line of the matrix holds each unit's
\* state exactly weight-many times, hence as many characters as the header says.
C5_TotalIsLineLength ==
    /\ wvar = SumSeq(wgts)
    /\ fpTx.written =>
          /\ fpTx.wvar = SumSeq(wgts)
          /\ \A i \in DOMAIN fpTx.lines :
                /\ Len(fpTx.lines[i].chars) = fpTx.wvar
                /\ \A var \in 1 .. nVar : \A k \in 1 .. wgts[var] :
                      fpTx.lines[i].chars[Before(var) + k] =
                          StateOf(par, fpTx.lines[i].hand, UnitPos(var)[1], UnitPos(var)[2])

C5_Witness ==
    /\ fpTx.written
    /\ fpTx.lines # << >>
    /\ \E var \in 1 .. nVar : wgts[var] >= 2
    /\ \E var \in 1 .. nVar : wgts[var] = 0

\* Cells of hand 0 of two witnesses of a parallel.
Cell(pp, ms, pc0) == par[pp].msHands[ms][0].sets[pc0]
AllPieces == 0 .. (nPiece - 1)
\* ms holds at every piece the instance m2 holds.
SameInstances(pp, ms, m2) ==
    \A pc0 \in AllPieces : Cell(pp, ms, pc0) # NULL /\ Cell(pp, ms, pc0) = Cell(pp, m2, pc0)
\* ms and m2 hold the same instance at every piece where either holds one.
SameCells(pp, ms, m2) == \A pc0 \in AllPieces : Cell(pp, ms, pc0) = Cell(pp, m2, pc0)
\* suppressId sets hand 0 of ms in pp apart.
SetApart(pp, ms) ==
    ~par[pp].msHands[ms][0].suppressed /\ par'[pp].msHands[ms][0].suppressed

C6_MergedIffSameInstancesStep ==
    pc = "suppressId" /\ ~env.IDOK =>
        \A pp \in Pars : \A ms \in MSS :
            ~par[pp].msHands[ms][0].suppressed =>
                (SetApart(pp, ms) <=>
                    \E m2 \in 0 .. (ms - 1) : /\ ~par[pp].msHands[m2][0].suppressed
                                              /\ SameInstances(pp, ms, m2))

\* C6 as stated: suppressId suppresses hand 0 of a witness exactly when an
\* earlier witness of the parallel, hand 0 unsuppressed before the pass, holds
\* the same reading-set instance at every piece.
C6_MergedIffSameInstances == [][C6_MergedIffSameInstancesStep]_vars

C6_MergedIffSameCellsStep ==
    pc = "suppressId" /\ ~env.IDOK =>
        \A pp \in Pars : \A ms \in MSS :
            ~par[pp].msHands[ms][0].suppressed =>
                (SetApart(pp, ms) <=>
                    \E m2 \in 0 .. (ms - 1) : /\ ~par[pp].msHands[m2][0].suppressed
                                              /\ SameCells(pp, ms, m2))

\* C6 amended: ... holds the same cell at every piece, two unset cells being
\* the same; equal strings from separate state tokens are different cells.
C6_MergedIffSameCells == [][C6_MergedIffSameCellsStep]_vars

\* Two witnesses with equal text at every piece, from separate tokens at some.
EqualText(pp, ms, m2) ==
    /\ \A pc0 \in AllPieces :
          /\ Cell(pp, ms, pc0) # NULL
          /\ Cell(pp, m2, pc0) # NULL
          /\ states[Cell(pp, ms, pc0)] = states[Cell(pp, m2, pc0)]
    /\ \E pc0 \in AllPieces : Cell(pp, ms, pc0) # Cell(pp, m2, pc0)

C6_Witness ==
    /\ pc = "writeTx"
    /\ ~env.IDOK
    /\ \/ \E h \in AllHands : by[h] = "id" /\ \E pc0 \in AllPieces : Hand(h).sets[pc0] = NULL
       \/ \E pp \in Pars : \E ms \in MSS : \E m2 \in 0 .. (ms - 1) :
             /\ EqualText(pp, ms, m2)
             /\ ~Suppressed(<<pp, ms, 0>>)
             /\ ~Suppressed(<<pp, m2, 0>>)

\* C7 as stated: the year cutoff comes after suppressId, so no hand has been
\* removed by the year cutoff when identical witnesses are compared.
C7_YearCutoffLast == pc = "suppressId" => \A h \in AllHands : by[h] # "year"

\* C7 amended: the order is mandate, constant, fragment/correction, year
\* cutoff, constant re-run, identical: the year cutoff has been applied when
\* the re-run and suppressId start, and each pass sets hands apart in its turn.
C7_YearCutoffBeforeRerun ==
    /\ pc \in {"suppressVr2", "suppressId", "writeTx"} /\ env.hasYEAR =>
          \A h \in AllHands :
              ~Suppressed(h) => Hand(h).earliest <= env.YEAR \/ Hand(h).mandated
    /\ \A h \in AllHands :
          /\ by[h] = "mand" => pc \notin {"main", "loopexit", "mandateTx"}
          /\ by[h] \in {"frag", "corr", "year"} =>
                pc \notin {"main", "loopexit", "mandateTx", "suppressVr1", "suppressTx"}
          /\ by[h] = "id" => pc \in {"writeTx", "writeNo", "writeVr", "exit"}

C7_Witness ==
    /\ pc = "suppressId"
    /\ \E h \in AllHands : \E ms \in MSS :
          /\ by[h] = "year"
          /\ h[3] = 0
          /\ ms > h[2]
          /\ ~Suppressed(<<h[1], ms, 0>>)
          /\ SameCells(h[1], ms, h[2])

C8_UnresolvedAbortsStep ==
    mandStatus = "WARN" \/ mandStatus' = "WARN" =>
        /\ wgts' = wgts
        /\ \A h \in AllHands :
              SuppressedNext(h) = Suppressed(h)

\* C8: once a name of the allow-list has failed to resolve, no pass
\* suppresses a hand or zeroes a weight.
C8_UnresolvedAborts == [][C8_UnresolvedAbortsStep]_vars

C9_MandateOutcomeStep ==
    pc = "mandateTx" =>
        IF env.subset = << >>
        THEN \A h \in AllHands :
                /\ SuppressedNext(h) = Suppressed(h)
                /\ MandatedNext(h) = Hand(h).mandated
        ELSE mandStatus' = "OK" =>
                \A h \in AllHands :
                    ~SuppressedNext(h) <=>
                        (~Suppressed(h) /\ MandatedNext(h))

\* C9: with a non-empty allow-list whose names all resolve, after mandateTx a
\* hand is unsuppressed iff it was unsuppressed before and is mandated; with
\* an empty allow-list mandateTx changes no suppressed or mandated flag.
C9_MandateOutcome == [][C9_MandateOutcomeStep]_vars

C9_Witness ==
    /\ pc = "suppressVr1"
    /\ env.subset # << >>
    /\ mandStatus = "OK"
    /\ nParallels > 1
    /\ \E h \in AllHands : by[h] = "mand"
    /\ \E h \in AllHands : ~Suppressed(h) /\ h[3] > 0

\* C10: a run whose token loop has issued a diagnostic does not enter the
\* pipeline and writes no matrix.
C10_WarningAborts == nfWarn > 0 => pc \notin PipelinePcs /\ ~fpTx.written


(***************************************************************************)
(* The end of the file inside a command; main's return value.              *)
(***************************************************************************)
\* The file has ended inside a command: the prescan met it, or the token
\* loop has interpreted the command that was cut short.
EofInside ==
    \E i \in 1 .. Len(Cmds) :
        IsEof(Cmds[i]) /\ (~initContext(file) \/ (i < pos /\ pc # "main"))

\* C11: when the file ends inside a command that reads up to its own
\* terminator, the pipeline does not run, no matrix is written and main
\* returns a failure code (-FATAL from the token loop, -2 from the prescan).
C11_EofIsFatal ==
    EofInside => /\ pc \notin PipelinePcs
                 /\ ~fpTx.written
                 /\ (pc = "exit" => ret \in {0 - StatusNum("FATAL"), -2})

\* C12: main returns 0 after a run with no warning and no fatal error, the
\* number of warnings after a run with warnings and no fatal error, and
\* after a fatal error a value no such run returns.
C12_ExitValue ==
    pc = "exit" /\ initContext(file) =>
        /\ status # "FATAL" => ret = nWarn
        /\ status = "FATAL" => ret < 0

(***************************************************************************)
(* The priorities of the assignments of one "< ... >" block.               *)
(***************************************************************************)
\* The token before toks[i] that is no macro, 0 when there is none.
RECURSIVE PrevNonMac(_, _)
PrevNonMac(toks, i) ==
    IF i <= 1 THEN 0
    ELSE IF toks[i - 1].t # "mac" THEN i - 1
    ELSE PrevNonMac(toks, i - 1)

\* toks[i] is a state string: it opens the block or follows a "|".
IsSet(toks, i) ==
    /\ toks[i].t \notin {"mac", "bar"}
    /\ PrevNonMac(toks, i) = 0 \/ toks[PrevNonMac(toks, i)].t = "bar"

\* The reading set in force at toks[i], when the block starts with n sets.
SetAt(toks, i, n) ==
    LET k == Cardinality({ j \in 1 .. i : IsSet(toks, j) })
    IN IF k = 0 THEN NULL ELSE n + k

\* The priority at which toks[i] names hand 0 of ms; 0 when it does not.
Prio(toks, i, ms) ==
    LET tok == toks[i]
        pm == par[parallel].pMacros
    IN IF tok.t = "mac"
       THEN IF pm[tok.nm].def /\ ms \in pm[tok.nm].inset THEN pm[tok.nm].level ELSE 0
       ELSE IF tok.t = "bar" \/ IsSet(toks, i) THEN 0
       ELSE IF findMSS(tok) = ms /\ tok.hh = 0 THEN MAXMACRO
       ELSE 0

\* The first of the highest-priority tokens that name ms; 0 when none does.
Best(toks, ms) ==
    LET N == { i \in 1 .. Len(toks) : Prio(toks, i, ms) > 0 }
    IN IF N = {} THEN 0
       ELSE CHOOSE i \in N :
              \A j \in N : \/ Prio(toks, j, ms) < Prio(toks, i, ms)
                           \/ Prio(toks, j, ms) = Prio(toks, i, ms) /\ i <= j

InMissing(ms) == ms \in par[parallel].pMacros["?"].inset

C13_HighestPriorityWinsStep ==
    HasCmd("<") /\ status' # "FATAL" =>
        \A ms \in MSS :
            ( /\ ~par[parallel].msHands[ms][0].inLacuna
              /\ ~InMissing(ms)
              /\ Best(Cmd.toks, ms) # 0 )
            => par'[parallel].msHands[ms][0].sets[piece]
                 = SetAt(Cmd.toks, Best(Cmd.toks, ms), Len(states))

\* C13: after a "< ... >" block, hand 0 of a witness that is neither in a
\* lacuna nor in $? holds, at the current piece, the reading set of the
\* highest-priority token that names it (an explicit name above every macro,
\* the macro of the higher level above the other), wherever in the block
\* that token stands.
C13_HighestPriorityWins == [][C13_HighestPriorityWinsStep]_vars

\* A block has been read in which a witness is named at two priorities, the
\* higher one first, and one in which the higher one comes last.
C13_Witness ==
    /\ pc = "main" /\ status = "OK" /\ pos > 7
    /\ \A k \in {5, 7} : Cmds[k].op = "<"
    /\ \E ms \in MSS : \E i, j \in 1 .. Len(Cmds[5].toks) :
          /\ i < j
          /\ Prio(Cmds[5].toks, i, ms) > 0
          /\ Prio(Cmds[5].toks, i, ms) < Prio(Cmds[5].toks, j, ms)
          /\ Hand(<<parallel, ms, 0>>).sets[0] = SetAt(Cmds[5].toks, j, 0)
    /\ \E ms \in MSS : \E i, j \in 1 .. Len(Cmds[7].toks) :
          /\ i < j
          /\ Prio(Cmds[7].toks, j, ms) > 0
          /\ Prio(Cmds[7].toks, i, ms) > Prio(Cmds[7].toks, j, ms)
          /\ Hand(<<parallel, ms, 0>>).sets[1] = SetAt(Cmds[7].toks, i, 3)

(***************************************************************************)
(* The chronology import.                                                  *)
(***************************************************************************)
\* The lines of a chronology file that are the entry of hand hh of ms.
Entries(lines, ms, hh) ==
    { i \in 1 .. Len(lines) : lines[i].w = mss[ms].Aland /\ lines[i].hh = hh }

C14_ChronBoundsStep ==
    HasCmd("^") =>
        \A pp \in Pars, ms \in MSS, hh \in Hands :
            LET hand == par'[pp].msHands[ms][hh]
                own == Entries(Cmd.lines, ms, hh)
                base == Entries(Cmd.lines, ms, 0)
            IN /\ \A i \in own :
                     /\ hand.earliest = Cmd.lines[i].lo
                     /\ hand.average = Cmd.lines[i].mid
                     /\ hand.latest = Cmd.lines[i].hi
               /\ hh > 0 /\ own = {} =>
                     \A i \in base :
                        /\ hand.earliest = Cmd.lines[i].lo
                        /\ hand.average = Cmd.lines[i].mid
                        /\ hand.latest = INT_MAX

\* C14: after a chronology import every hand that has its own line in the
\* file holds the three bounds of that line, whether the line stands before
\* or after the line of the witness's hand 0; a corrector hand with no line
\* of its own holds hand 0's earliest and average and an open latest bound.
C14_ChronBounds == [][C14_ChronBoundsStep]_vars

(***************************************************************************)
(* The strata.                                                             *)
(***************************************************************************)
Stratified == pc \in {"writeVr", "exit"} /\ fpTx.written
Surviving == { h \in AllHands : ~Suppressed(h) }
StrataInUse == { Hand(h).stratum : h \in Surviving }

\* Equal average dates give equal strata, a later date a greater stratum.
InTimeOrder ==
    \A g, h \in Surviving :
        /\ Hand(g).average = Hand(h).average => Hand(g).stratum = Hand(h).stratum
        /\ Hand(g).average < Hand(h).average => Hand(g).stratum < Hand(h).stratum

NoGaps == StrataInUse = 0 .. (Cardinality(StrataInUse) - 1)

\* C15 as stated: with no year granularity the strata are in time order and
\* are consecutive integers.
C15_StrataCompacted == Stratified /\ YearGran = 0 => InTimeOrder /\ NoGaps

\* C15: with no year granularity the stratum of a surviving hand is its
\* average year itself, so the strata are in time order but not consecutive;
\* with a granularity the strata in use are consecutive integers from 0, and
\* a later average date never gets a smaller stratum.
C15_StrataAreYears ==
    Stratified =>
        /\ YearGran = 0 => InTimeOrder /\ \A h \in Surviving : Hand(h).stratum = Hand(h).average
        /\ YearGran # 0 =>
              /\ NoGaps
              /\ \A g, h \in Surviving :
                    Hand(g).average <= Hand(h).average => Hand(g).stratum <= Hand(h).stratum

\* Strata were assigned with no granularity to hands of different dates.
C15_Witness ==
    /\ Stratified /\ YearGran = 0
    /\ \E g, h \in Surviving : Hand(g).stratum > Hand(h).stratum + 1 /\ Hand(h).stratum > 0

(***************************************************************************)
(* The reserved macro $?.                                                  *)
(***************************************************************************)
Ordinary == MacroNames \ {"*", "?"}

MissingOutranks ==
    \A pp \in Pars : \A c \in Ordinary :
        par[pp].pMacros[c].def => par[pp].pMacros["?"].level > par[pp].pMacros[c].level

C16_MissingOutranksMacrosStep ==
    /\ MissingOutranks
    /\ HasCmd("<") /\ status' # "FATAL" =>
          \A ms \in MSS :
              ( /\ InMissing(ms)
                /\ ~par[parallel].msHands[ms][0].inLacuna
                /\ ~par[parallel].msHands[ms][0].suppressed
                /\ Best(Cmd.toks, ms) # 0
                /\ Prio(Cmd.toks, Best(Cmd.toks, ms), ms) < MAXMACRO )
              => par'[parallel].msHands[ms][0].sets[piece] = NULL

\* C16: in every parallel the level of $? is above the level of every
\* ordinary macro, and when a "< ... >" block closes, the cell of a witness
\* of $? that took its reading through an ordinary macro is left unset.
C16_MissingOutranksMacros == [][C16_MissingOutranksMacrosStep]_vars

(***************************************************************************)
(* The matrix as written.                                                  *)
(***************************************************************************)
\* The non-missing states the lines of the matrix show at unit var.
Column(var) ==
    { fpTx.lines[i].chars[Before(var) + 1] : i \in DOMAIN fpTx.lines } \ {MISSING}

\* C17: in the matrix as written, every unit of non-zero weight shows at
\* least 2 distinct non-missing states among the lines, so no unit is kept
\* whose variation came only from hands that a reduction pass removed.
C17_WrittenUnitsVary ==
    fpTx.written => \A var \in 1 .. nVar : wgts[var] # 0 => Cardinality(Column(var)) >= 2

\* A matrix was written with a unit kept, after a pass removed a hand whose
\* own state at a dropped unit no remaining hand shows.
C17_Witness ==
    /\ fpTx.written
    /\ \E var \in 1 .. nVar : wgts[var] # 0
    /\ \E h \in AllHands : \E q \in Units :
          /\ by[h] \in {"frag", "corr", "year", "id"}
          /\ wgts[VarOf(q[1], q[2])] = 0
          /\ StateOf(par, h, q[1], q[2]) # MISSING
          /\ Attesting(q, StateOf(par, h, q[1], q[2])) = {}

(***************************************************************************)
(* The nearest-earlier-hand link.                                          *)
(***************************************************************************)
\* suppressVr and writeTx resolve a cell of h through hands[h].lastHand.
ReadsLink(h) ==
    /\ h[3] > 0
    /\ ~Suppressed(h)
    /\ \E pc0 \in 0 .. (nPiece - 1) : pieceUnits[pc0 + 1] > 0 /\ Hand(h).sets[pc0] = NULL

\* C18: no hand's link is read before the fragment/correction pass has
\* assigned it: the run of suppressVr that precedes suppressTx resolves no
\* cell through a link.
C18_LinkSetBeforeRead == pc = "suppressVr1" => \A h \in AllHands : ~ReadsLink(h)

(***************************************************************************)
(* Duplicates within one "< ... >" block.                                  *)
(***************************************************************************)
\* The tokens of the block that name hand hh of ms explicitly.
Naming(toks, ms, hh) ==
    { i \in 1 .. Len(toks) : /\ toks[i].t \notin {"mac", "bar"}
                             /\ ~IsSet(toks, i)
                             /\ findMSS(toks[i]) = ms
                             /\ toks[i].hh = hh }

Lowest(S) == CHOOSE i \in S : \A j \in S : i <= j

\* The macro tokens that assign hand 0 of ms at its highest priority.
TopMacro(toks, ms) ==
    { i \in 1 .. Len(toks) : /\ toks[i].t = "mac"
                             /\ Prio(toks, i, ms) > 0
                             /\ Prio(toks, i, ms) = Prio(toks, Best(toks, ms), ms) }

C19_DuplicateKeepsFirstStep ==
    HasCmd("<") /\ status' # "FATAL" =>
        \A ms \in MSS :
            /\ \A hh \in Hands :
                  Cardinality(Naming(Cmd.toks, ms, hh)) >= 2 =>
                      /\ status' = "WARN"
                      /\ hh > 0 \/ (~InMissing(ms) /\ ~par[parallel].msHands[ms][0].inLacuna)
                            => par'[parallel].msHands[ms][hh].sets[piece]
                                 = SetAt(Cmd.toks, Lowest(Naming(Cmd.toks, ms, hh)), Len(states))
            /\ ( /\ ~par[parallel].msHands[ms][0].inLacuna
                 /\ Cardinality(TopMacro(Cmd.toks, ms)) >= 2 ) => status' = "WARN"

\* C19: when a "< ... >" block names the same hand of a witness explicitly
\* twice, or applies the same macro twice to a witness at its highest
\* priority, the block returns a warning, and the cell keeps the reading set
\* of the first of the two.
C19_DuplicateKeepsFirst == [][C19_DuplicateKeepsFirstStep]_vars

(***************************************************************************)
(* The fragment pass.                                                      *)
(***************************************************************************)
\* The weight of the units at which hand 0 of ms in pp holds a state of its
\* own that is not missing.
OwnWeight(pp, ms) ==
    LET f == [q \in Units |->
                LET r == par[pp].msHands[ms][0].sets[q[1]]
                IN IF r = NULL THEN 0
                   ELSE IF states[r][q[2] + 1] = MISSING THEN 0
                   ELSE wgts[VarOf(q[1], q[2])]]
    IN SumOver(Units, f)

\* Hand 0 of ms in pp is one the fragment pass decides about.
Candidate(pp, ms) ==
    /\ \E hh \in Hands : ~par[pp].msHands[ms][hh].suppressed
    /\ ~par[pp].msHands[ms][0].mandated
    /\ ~(Root /\ ms = 0)

C20_FragmentIffBelowStep ==
    pc = "suppressTx" =>
        \A pp \in Pars, ms \in MSS :
            Candidate(pp, ms) /\ ~par[pp].msHands[ms][0].suppressed =>
                (by'[<<pp, ms, 0>>] = "frag" <=> OwnWeight(pp, ms) < fThresh)

\* C20: the fragment pass suppresses hand 0 of a witness that is not wholly
\* suppressed, not mandated and not the root exactly when the weights of the
\* units at which its own cell holds a non-missing state sum to less than
\* the fragment threshold; a sum equal to the threshold keeps the hand.
C20_FragmentIffBelow == [][C20_FragmentIffBelowStep]_vars

\* The pass has suppressed one hand and kept one whose sum is the threshold.
C20_Witness ==
    /\ pc = "suppressVr2"
    /\ \E h \in AllHands : by[h] = "frag"
    /\ \E pp \in Pars, ms \in MSS :
          /\ Candidate(pp, ms)
          /\ by[<<pp, ms, 0>>] = ""
          /\ ~Suppressed(<<pp, ms, 0>>)
          /\ OwnWeight(pp, ms) = fThresh

(***************************************************************************)
(* The default thresholds.                                                 *)
(***************************************************************************)
Defaults == pc = "suppressTx" /\ ~env.hasFRAG /\ ~env.hasCORR /\ nVar <= 2 * CTHRESHOLD

\* n is W/d rounded up; n is the least integer above W/d.
RoundedUp(n, W, d) == d * n >= W /\ d * (n - 1) < W
LeastAbove(n, W, d) == d * n > W /\ d * (n - 1) <= W

\* C21 as stated: the default thresholds are wvar/2 and wvar/10 rounded up.
C21_ThresholdsRoundedUp ==
    Defaults => RoundedUp(fThresh, wvar, 2) /\ RoundedUp(cThresh, wvar, 10)

\* C21: with no FRAG/CORR override and at most 200 units, the fragment
\* threshold is the least integer above wvar/2 and the correction threshold
\* the least integer above wvar/10, wvar being the total the first run of
\* suppressVr has left.
C21_ThresholdsAboveShare ==
    Defaults => LeastAbove(fThresh, wvar, 2) /\ LeastAbove(cThresh, wvar, 10)

\* The thresholds are taken from an even total and from a total of 10.
C21_Witness == Defaults /\ wvar = 10 /\ fThresh = 6 /\ cThresh = 2

(***************************************************************************)
(* The root.                                                               *)
(***************************************************************************)
\* A "-" command interpreted so far names the root itself.
RootNamed ==
    \E i \in 1 .. (pos - 1) :
        /\ i <= Len(Cmds)
        /\ Cmds[i].op = "-"
        /\ \E k \in 1 .. Len(Cmds[i].toks) :
              LET tok == Cmds[i].toks[k]
              IN tok.t = "ms" /\ tok.nm = RootName /\ ~tok.dash

\* C22: with a root, from the end of the declaration on, the root is
\* witness 0; its hands are suppressed in every parallel but the first and
\* its corrector hands in the first; its hand 0 of the first parallel is
\* unsuppressed and mandated unless a "-" command has named the root.
C22_RootStands ==
    Root /\ par # << >> =>
        /\ mss[0].name = RootName
        /\ \A h \in AllHands : h[2] = 0 /\ h # <<0, 0, 0>> => Suppressed(h)
        /\ ~RootNamed => ~Suppressed(<<0, 0, 0>>) /\ Hand(<<0, 0, 0>>).mandated

\* A matrix is written for a root dated after the year cutoff, after a
\* macro that holds the root was suppressed.
C22_Witness ==
    /\ Root /\ fpTx.written /\ ~RootNamed
    /\ Len(fpTx.lines) >= 2
    /\ env.hasYEAR /\ Hand(<<0, 0, 0>>).earliest > env.YEAR
    /\ \E i \in 1 .. Len(Cmds) :
          /\ Cmds[i].op = "-"
          /\ \E k \in 1 .. Len(Cmds[i].toks) :
                /\ Cmds[i].toks[k].t = "mac"
                /\ 0 \in par[0].pMacros[Cmds[i].toks[k].nm].inset

(***************************************************************************)
(* What the pipeline changes.                                              *)
(***************************************************************************)
SetOf(p, h, pc0) == p[h[1]].msHands[h[2]][h[3]].sets[pc0]

\* The reading-set strings created so far keep their content.
StringsKept == Len(states') >= Len(states) /\ SubSeq(states', 1, Len(states)) = states

C23_CellsUntouchedStep ==
    /\ StringsKept
    /\ pc \in PipelinePcs =>
          \A h \in AllHands : \A pc0 \in AllPieces : SetOf(par', h, pc0) = SetOf(par, h, pc0)

C23_OnlyUnsetCellsFilledStep ==
    /\ StringsKept
    /\ pc \in PipelinePcs =>
          /\ mss' = [ms \in MSS |-> [mss[ms] EXCEPT !.corrected = mss'[ms].corrected]]
          /\ <<states, nRdgs, pieceUnits, parallel, macLevel>>'
                = <<states, nRdgs, pieceUnits, parallel, macLevel>>
          /\ \A h \in AllHands : \A pc0 \in AllPieces :
                \/ SetOf(par', h, pc0) = SetOf(par, h, pc0)
                \/ /\ pc = "suppressTx"
                   /\ SetOf(par, h, pc0) = NULL
                   /\ h[3] > 0
                   /\ \E h2 \in 0 .. (h[3] - 1) :
                         SetOf(par', h, pc0) = SetOf(par', <<h[1], h[2], h2>>, pc0)

Elems(seq) == { seq[i] : i \in DOMAIN seq }

\* B precedes A: it is surely earlier, or an earlier hand of the same text.
Precedes(B, A) ==
    \/ Hand(B).latest < Hand(A).earliest
    \/ B[1] = A[1] /\ B[2] = A[2] /\ B[3] <= A[3]

\* C24: the constraints file has one line for every surviving hand A and no
\* other; the line lists exactly the surviving hands B whose latest bound is
\* below A's earliest or which are the same or an earlier hand of A's
\* witness and parallel; so every line lists its own hand and none lists a
\* suppressed hand.
C24_Predecessors ==
    fpNo.written =>
        /\ { fpNo.lines[i].hand : i \in DOMAIN fpNo.lines } = Surviving
        /\ \A i, j \in DOMAIN fpNo.lines : fpNo.lines[i].hand = fpNo.lines[j].hand => i = j
        /\ \A i \in DOMAIN fpNo.lines :
              LET A == fpNo.lines[i].hand
              IN /\ Elems(fpNo.lines[i].preds) = { B \in Surviving : Precedes(B, A) }
                 /\ A \in Elems(fpNo.lines[i].preds)
                 /\ \A B \in Elems(fpNo.lines[i].preds) : ~Suppressed(B)

\* A file was written in which a hand follows a hand of another witness by
\* date and a corrector follows its own hand 0, with some hand suppressed
\* that is surely earlier than a listed one.
C24_Witness ==
    /\ fpNo.written
    /\ \E i \in DOMAIN fpNo.lines : \E B \in Elems(fpNo.lines[i].preds) :
          B[2] # fpNo.lines[i].hand[2]
    /\ \E i \in DOMAIN fpNo.lines :
          /\ fpNo.lines[i].hand[3] > 0
          /\ <<fpNo.lines[i].hand[1], fpNo.lines[i].hand[2], 0>> \in Elems(fpNo.lines[i].preds)
    /\ \E i \in DOMAIN fpNo.lines : \E B \in AllHands :
          Suppressed(B) /\ Hand(B).latest < Hand(fpNo.lines[i].hand).earliest


(***************************************************************************)
(* The allow-list and several parallels.                                   *)
(***************************************************************************)
\* The witnesses named, as witnesses, on the command line.
NamedWitnesses ==
    { findMSS(env.subset[i]) : i \in { j \in DOMAIN env.subset : env.subset[j].t = "ms" } }
        \cap MSS

C25_MandatedEverywhereStep ==
    pc = "mandateTx" /\ nParallels > 1 /\ env.subset # << >> /\ mandStatus' = "OK" =>
        \A ms \in NamedWitnesses : \A pp \in Pars :
            ~Suppressed(<<pp, ms, 0>>) => ~SuppressedNext(<<pp, ms, 0>>)

\* C25: with several parallels and an allow-list whose names all resolve,
\* every hand-0 entry of a named witness that was unsuppressed before
\* mandateTx is unsuppressed after it, in every parallel.
C25_MandatedEverywhere == [][C25_MandatedEverywhereStep]_vars


(***************************************************************************)
(* The weights of the units of a reading block.                            *)
(***************************************************************************)
\* The least number of divisors d that cover the score s.
Ceil(s, d) == CHOOSE q \in 0 .. s : q * d >= s /\ (q - 1) * d < s

\* The weight the suffix of a '|' token stands for.
SuffixWeight(tok) ==
    CASE tok.k = "none" -> 1
      [] tok.k = "star" -> tok.n
      [] tok.k = "num" /\ tok.n = 0 -> 0
      [] tok.k = "num" /\ tok.n > 0 -> Ceil(tok.n, weighByED)

C26_UnitWeightsStep ==
    pc = "main" /\ HasCmd("[") /\ nPiece < MaxPiece =>
        /\ Len(wgts') = Len(wgts) + Len(Cmd.units)
        /\ \A i \in DOMAIN Cmd.units :
              weighByED > 0 \/ Cmd.units[i].k # "num" \/ Cmd.units[i].n = 0 =>
                  wgts'[Len(wgts) + i] = SuffixWeight(Cmd.units[i])
        /\ \A i \in DOMAIN wgts : wgts'[i] = wgts[i]
        /\ wvar' = SumSeq(wgts')

\* C26: a reading block gives each unit it opens the weight 1 without a
\* suffix, n for '*n', 0 for a score of 0 and, with a divisor d > 0, the
\* score s > 0 divided by d and rounded up; it leaves the weights of the
\* earlier units alone, and after it the weighted-unit total is the sum of
\* the weights of all units declared so far.
C26_UnitWeights == [][C26_UnitWeightsStep]_vars

\* Two reading blocks have been read with a divisor other than the default,
\* with scores below, at and above its multiples, and a score of 0.
C26_Witness ==
    /\ weighByED \notin {0, WEIGHBYED}
    /\ nPiece = 2
    /\ \E sc \in 1 .. 9 : \E i \in DOMAIN wgts : \E c \in DOMAIN Cmds :
          /\ Cmds[c].op = "[" /\ c < pos
          /\ \E u \in DOMAIN Cmds[c].units :
                /\ Cmds[c].units[u] = Unit("num", sc, 2)
                /\ sc % weighByED # 0 /\ sc > weighByED
                /\ wgts[i] = sc \div weighByED + 1
    /\ 0 \in Elems(wgts)
    /\ wvar = SumSeq(wgts)
    /\ wvar > Len(wgts)


(***************************************************************************)
(* The macro registry under doDefine.                                      *)
(***************************************************************************)
\* The macros of every parallel: which are defined, their members and levels.
Registry == [pp \in Pars |-> par[pp].pMacros]
RegistryNext == [pp \in Pars |-> par'[pp].pMacros]

C27_CheckIsReadOnlyStep ==
    pc = "main" /\ HasCmd("=") /\ mss # << >> /\ Cmd.act = "CHK" =>
        /\ RegistryNext = Registry
        /\ macLevel' = macLevel

\* C27: a '=?' command leaves the macros of every parallel (which are
\* defined, their members) and the next level to hand out as they were,
\* whether the check passes, fails or names a macro never defined.
C27_CheckIsReadOnly == [][C27_CheckIsReadOnlyStep]_vars

\* Is the member token a known hand-0 witness name, or a defined macro of the
\* active parallel other than M?
PlainMember(tok, M) ==
    IF tok.t = "mac"
    THEN tok.nm # M /\ par[parallel].pMacros[tok.nm].def
    ELSE tok.t = "ms" /\ ~tok.dash /\ ~tok.colon /\ findMSS(tok) \in MSS

\* The witnesses a member token stands for.
Denoted(tok) ==
    IF tok.t = "mac" THEN par[parallel].pMacros[tok.nm].inset ELSE {findMSS(tok)}

MembersOf(L) == UNION { Denoted(L[i]) : i \in DOMAIN L }

\* The defined macros, each with its parallel.
Defined == { m \in Pars \X MacroNames : par[m[1]].pMacros[m[2]].def }
DefinedNext == { m \in Pars \X MacroNames : par'[m[1]].pMacros[m[2]].def }

C28_DefineSetAlgebraStep ==
    /\ pc = "main" /\ HasCmd("=") /\ mss # << >> /\ ~IsEof(Cmd)
    /\ Cmd.act \in {"SET", "ADD", "SUB"} /\ Cmd.mac \in MacroNames
    /\ \A i \in DOMAIN Cmd.toks : PlainMember(Cmd.toks[i], Cmd.mac)
    => LET M == par[parallel].pMacros[Cmd.mac]
           after == par'[parallel].pMacros[Cmd.mac]
           old == IF M.def THEN M.inset ELSE {}
           S == MembersOf(Cmd.toks)
       IN /\ after.def
          /\ after.inset = CASE Cmd.act = "SET" -> S
                             [] Cmd.act = "ADD" -> old \cup S
                             [] Cmd.act = "SUB" -> old \ S
          /\ M.def => after.level = M.level
          /\ \A m, n \in DefinedNext :
                m # n => par'[m[1]].pMacros[m[2]].level # par'[n[1]].pMacros[n[2]].level
          /\ \A pp \in Pars : \A nm \in MacroNames :
                <<pp, nm>> # <<parallel, Cmd.mac>> => par'[pp].pMacros[nm] = par[pp].pMacros[nm]

\* C28: for a member list of known hand-0 names and defined macros other than
\* M, '=' leaves M with exactly the witnesses the list stands for, '=+' with
\* its old members and those, '=-' with its old members less those; M keeps
\* its level, no two defined macros have the same level, and no other macro,
\* nor M in another parallel, changes.
C28_DefineSetAlgebra == [][C28_DefineSetAlgebraStep]_vars

\* A macro has been set, extended, reduced through another macro and set
\* again in one parallel and then set in a second, where it differs.
C28_Witness ==
    /\ pc = "main" /\ nParallels > 1 /\ parallel > 0
    /\ \E c1, c2, c3, c4 \in 1 .. (pos - 1) :
          /\ c1 < c2 /\ c2 < c3 /\ c3 < c4
          /\ \A c \in {c1, c2, c3, c4} : Cmds[c].op = "=" /\ Cmds[c].mac = "m"
          /\ Cmds[c1].act = "SET" /\ Cmds[c2].act = "ADD" /\ Cmds[c3].act = "SUB"
          /\ Cmds[c4].act = "SET"
          /\ \E i \in DOMAIN Cmds[c3].toks : Cmds[c3].toks[i].t = "mac"
    /\ par[0].pMacros["m"].def /\ par[parallel].pMacros["m"].def
    /\ par[0].pMacros["m"].inset # par[parallel].pMacros["m"].inset
    /\ par[0].pMacros["m"].level < par[0].pMacros["n"].level
    /\ Cardinality(par[0].pMacros["m"].inset) = 2


(***************************************************************************)
(* Lacunae.                                                                *)
(***************************************************************************)
\* The witnesses, other than the root, whose hand 0 is unsuppressed and in an
\* open lacuna in the active parallel.
Lacunose ==
    { ms \in MSS : /\ ~(Root /\ ms = 0)
                   /\ ~par[parallel].msHands[ms][0].suppressed
                   /\ par[parallel].msHands[ms][0].inLacuna }

C29_LacunoseStayEmptyStep ==
    pc = "main" /\ HasCmd("<") /\ nPiece > 0 /\ pc' = "main" /\ status' = "OK" =>
        \A ms \in Lacunose : par'[parallel].msHands[ms][0].sets[piece] = NULL

\* C29: when a witness-assignment block closes without a warning, hand 0 of
\* every unsuppressed witness other than the root that is in an open lacuna
\* has no reading-set at the current piece.
C29_LacunoseStayEmpty == [][C29_LacunoseStayEmptyStep]_vars

\* A block has closed without a warning that named a macro with a member in a
\* lacuna and a member outside; the one outside took the set.
C29_Witness ==
    /\ pc = "main" /\ pos > 1 /\ status = "OK" /\ nPiece > 0
    /\ Cmds[pos - 1].op = "<"
    /\ \E i \in DOMAIN Cmds[pos - 1].toks :
          LET tok == Cmds[pos - 1].toks[i]
          IN /\ tok.t = "mac"
             /\ par[parallel].pMacros[tok.nm].def
             /\ \E ms \in Lacunose \cap par[parallel].pMacros[tok.nm].inset :
                   par[parallel].msHands[ms][0].sets[piece] = NULL
             /\ \E ms \in par[parallel].pMacros[tok.nm].inset \ Lacunose :
                   par[parallel].msHands[ms][0].sets[piece] # NULL

\* The hands of the active parallel a token of a lacuna command stands for:
\* the hand named, or hand 0 of the members of a macro (never the root's).
Targets(tok) ==
    IF tok.t = "mac"
    THEN { <<parallel, ms, 0>> : ms \in { m \in par[parallel].pMacros[tok.nm].inset :
                                            ~(Root /\ m = 0) } }
    ELSE { <<parallel, findMSS(tok), tok.hh>> }

\* Does the token name a hand of a known witness, or a defined macro?
NamesHands(tok) ==
    IF tok.t = "mac" THEN par[parallel].pMacros[tok.nm].def
    ELSE tok.t = "ms" /\ ~tok.dash /\ findMSS(tok) \in MSS /\ tok.hh \in Hands

InLacuna(h) == Hand(h).inLacuna
InLacunaNext(h) == par'[h[1]].msHands[h[2]][h[3]].inLacuna

\* A command of the kind act on hand h that does not fit the hand's flag.
Mismatched(act, h) ==
    \/ act = "SUB" /\ InLacuna(h)
    \/ act = "ADD" /\ ~InLacuna(h)
    \/ act = "CHK" /\ ~InLacuna(h)

C30_LacunaFlagsStep ==
    /\ pc = "main" /\ HasCmd("%") /\ mss # << >> /\ ~IsEof(Cmd)
    /\ Cmd.act \in {"ADD", "SUB", "CHK"}
    /\ \A i \in DOMAIN Cmd.toks : NamesHands(Cmd.toks[i])
    /\ \A i, j \in DOMAIN Cmd.toks :
          i # j => Targets(Cmd.toks[i]) \cap Targets(Cmd.toks[j]) = {}
    => LET T == UNION { Targets(Cmd.toks[i]) : i \in DOMAIN Cmd.toks }
       IN /\ \A h \in T :
                InLacunaNext(h) = CASE Cmd.act = "SUB" -> TRUE
                                    [] Cmd.act = "ADD" -> FALSE
                                    [] Cmd.act = "CHK" -> InLacuna(h)
          /\ \A h \in AllHands \ T : InLacunaNext(h) = InLacuna(h)
          /\ status' = IF \E h \in T : Mismatched(Cmd.act, h) THEN "WARN" ELSE "OK"

\* C30: a lacuna command on hands of known witnesses leaves each hand it
\* names in lacuna after '%-' and out of lacuna after '%+', whatever the hand
\* was before, and leaves every flag alone for '%?' and on the hands it does
\* not name; it returns a warning exactly when it opens a lacuna on a hand
\* in one, closes one on a hand in none, or checks a hand in none.
C30_LacunaFlags == [][C30_LacunaFlagsStep]_vars

\* Lacunae have been opened, closed and checked, the last command closing
\* through a macro with a warning, and every hand 0 is out of lacuna.
C30_Witness ==
    /\ pc = "main" /\ pos > 4 /\ status = "WARN" /\ nWarn > 3
    /\ Cmds[pos - 1].op = "%" /\ Cmds[pos - 1].act = "ADD"
    /\ \E i \in DOMAIN Cmds[pos - 1].toks : Cmds[pos - 1].toks[i].t = "mac"
    /\ \E c1, c2 \in 1 .. (pos - 2) :
          /\ Cmds[c1].op = "%" /\ Cmds[c1].act = "SUB"
          /\ Cmds[c2].op = "%" /\ Cmds[c2].act = "CHK"
          /\ \A i \in DOMAIN Cmds[c1].toks : NamesHands(Cmds[c1].toks[i])
    /\ \A ms \in MSS : ~InLacuna(<<parallel, ms, 0>>)


(***************************************************************************)
(* Suppression from the declaration to the output files.                   *)
(***************************************************************************)
\* The hands that have a line in the matrix as it will be after the step, and
\* those that have a line in the constraints file.
MatrixHandsNext == { fpTx'.lines[i].hand : i \in DOMAIN fpTx'.lines }
ConstraintHandsNext == { fpNo'.lines[i].hand : i \in DOMAIN fpNo'.lines }

ReductionPcs == {"mandateTx", "suppressVr1", "suppressTx", "suppressVr2", "suppressId",
                 "writeTx", "writeNo", "writeVr"}

C31_SuppressionMonotoneStep ==
    mss # << >> =>
        /\ \A h \in AllHands : Suppressed(h) => SuppressedNext(h)
        /\ \A var \in DOMAIN wgts : wgts[var] = 0 => wgts'[var] = 0
        /\ pc \in ReductionPcs => wvar' <= wvar
        /\ \A h \in AllHands :
              Suppressed(h) \/ SuppressedNext(h) =>
                  h \notin MatrixHandsNext /\ h \notin ConstraintHandsNext

\* C31: once the witnesses are declared, no step clears a hand's suppressed
\* flag or gives a unit of weight 0 a weight again, no step from mandateTx to
\* the end raises the weighted-unit total, and a suppressed hand has no line
\* in the matrix and none in the constraints file.
C31_SuppressionMonotone == [][C31_SuppressionMonotoneStep]_vars

\* Both files are written after a '-' command and a pass each removed a hand
\* and a pass set a weight to 0 that a reading block had given.
C31_Witness ==
    /\ fpTx.written /\ fpNo.written
    /\ \E c \in DOMAIN Cmds : Cmds[c].op = "-"
    /\ \E h \in AllHands : Suppressed(h) /\ by[h] = "cmd"
    /\ \E h \in AllHands : Suppressed(h) /\ by[h] \in {"frag", "corr", "year", "id", "mand"}
    /\ \E var \in DOMAIN wgts : wgts[var] = 0
    /\ wvar > 0
    /\ fpTx.lines # << >>


(***************************************************************************)
(* The names on the lines of the output files.                             *)
(***************************************************************************)
\* Do the witnesses have distinct print names and the parallels distinct codes?
NamesGiven ==
    /\ \A m, n \in MSS : mss[m].pname = mss[n].pname => m = n
    /\ \A p, q \in Pars : par[p].name_space = par[q].name_space => p = q

\* No two lines of the sequence carry the same name.
DistinctNames(lines) ==
    \A i, j \in DOMAIN lines : lines[i].name = lines[j].name => i = j

\* C32: with distinct witness names and parallel codes, no two lines of the
\* matrix and no two lines of the constraints file carry the same name, and
\* a witness with two lines in one parallel has its has-correctors flag set.
C32_WrittenNamesDistinct ==
    NamesGiven =>
        /\ fpTx.written =>
              /\ DistinctNames(fpTx.lines)
              /\ \A i, j \in DOMAIN fpTx.lines :
                    /\ i # j
                    /\ fpTx.lines[i].hand[1] = fpTx.lines[j].hand[1]
                    /\ fpTx.lines[i].hand[2] = fpTx.lines[j].hand[2]
                    => mss[fpTx.lines[i].hand[2]].corrected
        /\ fpNo.written => DistinctNames(fpNo.lines)


(***************************************************************************)
(* The precedence by date in the constraints file.                         *)
(***************************************************************************)
\* Are the bounds of the hand the right way round?
Proper(h) == Hand(h).earliest <= Hand(h).latest

\* The lines of two hands of different witnesses or parallels that list each
\* other.
Mutual(i, j) ==
    LET A == fpNo.lines[i].hand
        B == fpNo.lines[j].hand
    IN /\ A[1] # B[1] \/ A[2] # B[2]
       /\ B \in Elems(fpNo.lines[i].preds)
       /\ A \in Elems(fpNo.lines[j].preds)

\* C33: in the constraints file no two surviving hands of different witnesses
\* or different parallels, each with its earliest bound not above its latest,
\* are listed as predecessors of each other.
C33_DatesAntisymmetric ==
    fpNo.written =>
        \A i, j \in DOMAIN fpNo.lines :
            Proper(fpNo.lines[i].hand) /\ Proper(fpNo.lines[j].hand) => ~Mutual(i, j)

\* A file was written in which a hand with proper bounds follows another by
\* date, and in which two hands list each other, one of them with its bounds
\* the wrong way round.
C33_Witness ==
    /\ fpNo.written
    /\ \E i, j \in DOMAIN fpNo.lines :
          /\ Proper(fpNo.lines[i].hand) /\ Proper(fpNo.lines[j].hand)
          /\ fpNo.lines[i].hand[2] # fpNo.lines[j].hand[2]
          /\ fpNo.lines[j].hand \in Elems(fpNo.lines[i].preds)
          /\ fpNo.lines[i].hand \notin Elems(fpNo.lines[j].preds)
    /\ \E i, j \in DOMAIN fpNo.lines : Mutual(i, j) /\ ~Proper(fpNo.lines[i].hand)
Init ==
    /\ file \in 1 .. Len(Files)
    /\ Root = Files[file].Root
    /\ Cmds = Files[file].cmds
    /\ weighByED = IF "WEIGHBYED" \in DOMAIN Files[file]
                   THEN Files[file].WEIGHBYED ELSE WEIGHBYED
    /\ pos = 1
    /\ pc = IF initContext(file) THEN "main" ELSE "exit"
    /\ ret = IF initContext(file) THEN 0 ELSE -2
    /\ status = "OK"
    /\ nWarn = 0
    /\ nfWarn = 0
    /\ env = NoEnv
    /\ mss = << >>
    /\ par = << >>
    /\ parallel = 0
    /\ macLevel = 1
    /\ states = << >>
    /\ nRdgs = << >>
    /\ wgts = << >>
    /\ wvar = 0
    /\ pieceUnits = << >>
    /\ mandStatus = "OK"
    /\ by = << >>
    /\ fpTx = NoFile
    /\ fpNo = NoLines

Next ==
    \/ doMSS
    \/ TokUnknown
    \/ TokEnd
    \/ MainEOF
    \/ doParallel
    \/ doDefine
    \/ doSuppress
    \/ doLacuna
    \/ doReadings
    \/ doWitnesses
    \/ doChron
    \/ doComment
    \/ caseEat
    \/ AfterLoop
    \/ mandateTx
    \/ suppressVr
    \/ suppressTx
    \/ suppressId
    \/ writeTx
    \/ writeNo
    \/ writeVr

Spec == Init /\ [][Next]_vars

====
